---- MODULE Spec2Model ----
(***************************************************************************)
(* A model of the bounded byte-message ring buffers SPSCBuf, MPSCBuf and   *)
(* MPMCBuf and of RWSpinLock.  Every atomic load, store and                 *)
(* compare-exchange of the source is one step of the thread that executes   *)
(* it; a memcpy, which the protocol is meant to make exclusive, is one      *)
(* step as well.  Memory is sequentially consistent.                        *)
(*                                                                         *)
(* Byte arrays are kept run-length encoded: <<[v |-> 7, n |-> 3]>> is the   *)
(* three bytes 7 7 7.  The encoding is canonical (no empty run, no two      *)
(* adjacent runs of the same value), so equality of encodings is equality   *)
(* of byte arrays.                                                          *)
(***************************************************************************)
EXTENDS Integers, Sequences, FiniteSets, TLC

\* ------------------------------------------------------------- bounds ----
\* Width of size_t in the model (the source has 64; the rounding loop only
\* depends on the width through the wrap of "cap <<= 1").
WordBits == 5
\* Requested sizes given to the constructor in the queue specifications.
MaxReq == 3
\* Messages the producers submit, all together, in the concurrent
\* specifications (a call that returns -1 is retried with the same message).
MaxMsgs == 3
\* Calls the single caller makes in the sequential specification.
SeqCalls == 4
\* Width of RWSpinLock's state word in the model (the source has 32): the top
\* bit is the writer flag, the bits below it count the readers.
StateBits == 3
\* Workers a WorkerPool is constructed with, at most.
MaxWorkers == 2
\* Calls the caller makes on a WorkerPool.
PoolCalls == 4

\* -------------------------------------------------- program constants ----
MAX_NODE_SIZE == 65535
MAX_SLOT_SIZE == 65535

\* -------------------------------------------------------- arithmetic ----
RECURSIVE Pow2(_)
Pow2(k) == IF k = 0 THEN 1 ELSE 2 * Pow2(k - 1)

WordMod == Pow2(WordBits)

RECURSIVE BitAnd(_, _)
BitAnd(a, b) ==
    IF a = 0 \/ b = 0 THEN 0
    ELSE (IF a % 2 = 1 /\ b % 2 = 1 THEN 1 ELSE 0) + 2 * BitAnd(a \div 2, b \div 2)

\* A faulty length field: eight bits wide.
ToUint8(x) == x % 256

\* static_cast<uint16_t>
ToUint16(x) == x % 65536

\* static_cast<int32_t> of a value below 2^31 keeps the value; every length
\* that reaches the cast is at most MAX_NODE_SIZE.
ToInt32(x) == x

Min(a, b) == IF a < b THEN a ELSE b

\* -------------------------------------------------------- byte arrays ----
Rep(v, n) == IF n = 0 THEN << >> ELSE << [v |-> v, n |-> n] >>

RECURSIVE BLen(_)
BLen(b) == IF b = << >> THEN 0 ELSE Head(b).n + BLen(Tail(b))

RECURSIVE BTake(_, _)
BTake(b, k) ==
    IF k = 0 \/ b = << >> THEN << >>
    ELSE IF Head(b).n <= k THEN << Head(b) >> \o BTake(Tail(b), k - Head(b).n)
    ELSE << [v |-> Head(b).v, n |-> k] >>

RECURSIVE BDrop(_, _)
BDrop(b, k) ==
    IF k = 0 \/ b = << >> THEN b
    ELSE IF Head(b).n <= k THEN BDrop(Tail(b), k - Head(b).n)
    ELSE << [v |-> Head(b).v, n |-> Head(b).n - k] >> \o Tail(b)

BCat(a, b) ==
    IF a = << >> THEN b
    ELSE IF b = << >> THEN a
    ELSE IF a[Len(a)].v = Head(b).v
         THEN SubSeq(a, 1, Len(a) - 1)
              \o << [v |-> Head(b).v, n |-> a[Len(a)].n + Head(b).n] >>
              \o Tail(b)
    ELSE a \o b

\* std::memcpy(dst, src, n): the first n bytes of dst become the first n bytes
\* of src, the rest of dst is kept.
memcpy(dst, src, n) == BCat(BTake(src, n), BDrop(dst, n))

\* ------------------------------------------------------------- state ----
VARIABLES
    cls,      \* the class of the object: "SPSC", "MPSC", "MPMC" or "RW"
    mode,     \* how the object is driven: "conc" (threads in their roles) or
              \* "seq" (one caller, one call at a time, lengths of all sizes)
    req,      \* the size the constructor was called with
    ctor,     \* the constructor's position and locals: [pc, size, cap]
    size_,    \* capacity (0 until the constructor has set it)
    head_,    \* std::atomic<size_t> head_
    tail_,    \* std::atomic<size_t> tail_
    buf_,     \* the slot array: index -> [seq, len_, data_] (no seq in SPSC)
    state_,   \* RWSpinLock: std::atomic<uint32_t> state_
    pc,       \* each thread's position
    loc,      \* each thread's locals and arguments
    ret,      \* each thread's last returned call: [op, val]
    dirty,    \* the shared fields and caller buffers whose value the thread's
              \* current (or last) call has changed
    log,      \* per thread, its successful calls in order:
              \* [op, arg, data, val, pos]
    claims,   \* the head positions taken by dequeues, in the order taken
    ncalls,   \* calls started in mode "seq"
    thread_cnt_,  \* WorkerPool: size_t thread_cnt_
    start_flag_,  \* WorkerPool: std::atomic<bool> start_flag_
    workers_,     \* WorkerPool: std::deque<Worker> workers_, each worker
                  \* [thread_id_, thread_term_, running, held]
    last          \* WorkerPool: the caller's last call and what it reported

pool == << thread_cnt_, start_flag_, workers_, last >>

fixed == << cls, mode, req, ctor, size_, state_, pool >>

vars == << cls, mode, req, ctor, size_, head_, tail_, buf_, state_,
           pc, loc, ret, dirty, log, claims, ncalls, pool >>

\* ----------------------------------------------------------- threads ----
\* Two producer threads and two consumer threads.
Producers == {1, 2}
Consumers == {3, 4}
Threads   == Producers \cup Consumers

\* The thread-role contract of each class (spscbuf.h 16-22, mpscbuf.h 16-20,
\* mpmcbuf.h 7-8).  In mode "seq" thread 1 makes every call.
ProducersOf(c) == IF c = "SPSC" THEN {1} ELSE Producers
ConsumersOf(c) == IF c = "MPMC" THEN Consumers ELSE {3}

CanProduce(t) == IF mode = "seq" THEN t = 1 ELSE t \in ProducersOf(cls)
CanConsume(t) == IF mode = "seq" THEN t = 1 ELSE t \in ConsumersOf(cls)

\* ------------------------------------------------------------ inputs ----
\* A message of L bytes: L-1 bytes of value tag, then one byte tag + 100, so
\* that a message cut short differs from every message submitted.
Msg(tag, L) == IF L = 0 THEN << >> ELSE BCat(Rep(tag, L - 1), Rep(tag + 100, 1))

\* The caller's output buffer before the call: len bytes of 255.
OutBuf(len) == Rep(255, len)

SeqLens    == {0, 1, MAX_NODE_SIZE, MAX_NODE_SIZE + 1}
SeqOutLens == {1, MAX_NODE_SIZE, MAX_NODE_SIZE + 5}

EnqPcs == {"push_full", "push_copy", "push_store",
           "enq_tail", "enq_seq", "enq_cas", "enq_copy", "enq_pub"}

\* Messages accepted so far or being submitted right now (in mode "conc" a
\* producer's log holds exactly its accepted messages).
Submitted ==
    Len(log[1]) + Len(log[2])
    + (IF pc[1] \in EnqPcs THEN 1 ELSE 0) + (IF pc[2] \in EnqPcs THEN 1 ELSE 0)

\* The k-th message of thread t carries a tag of its own.
TagOf(t, k) == (t - 1) * MaxMsgs + k

\* The messages thread t may submit next.
Inputs(t) ==
    IF mode = "seq"
    THEN IF ncalls < SeqCalls THEN {Msg(ncalls + 1, L) : L \in SeqLens} ELSE {}
    ELSE IF Submitted < MaxMsgs
         THEN {Msg(TagOf(t, Len(log[t]) + 1), 1)}
         ELSE {}

\* The output buffer lengths thread t may call with next.
OutLens(t) ==
    IF mode = "seq"
    THEN IF ncalls < SeqCalls THEN SeqOutLens ELSE {}
    ELSE {1}

NoLoc == [data |-> << >>, len |-> 0, out |-> << >>, t |-> 0, h |-> 0,
          head |-> 0, next |-> 0, tail |-> 0, old |-> 0]
NoRet == [op |-> "none", val |-> 0]

\* No call made on the pool yet: n counts the calls, quiet tells that no
\* thread_loop() has ended by an exception since the last call returned,
\* dead, fail and restarted are what monitor_pool() counted, cleared the
\* workers as workers_.clear() destroyed them.
NoCall == [n |-> 0, op |-> "none", val |-> FALSE, quiet |-> TRUE,
           dead |-> 0, fail |-> 0, restarted |-> {}, cleared |-> << >>]

\* No WorkerPool.
NoPool ==
    /\ thread_cnt_ = 0 /\ start_flag_ = FALSE /\ workers_ = << >>
    /\ last = NoCall

Started == ctor.pc = "done"

\* What a step has changed, by value.
Touched(t) ==
    (IF head_' # head_ THEN {"head_"} ELSE {})
    \cup (IF tail_' # tail_ THEN {"tail_"} ELSE {})
    \cup (IF buf_' # buf_ THEN {"buf_"} ELSE {})
    \cup (IF loc'[t].out # loc[t].out THEN {"out"} ELSE {})

Track(t) == dirty' = [dirty EXCEPT ![t] = @ \cup Touched(t)]

\* A call begins: the caller's arguments, nothing changed yet.
Call(t, l) ==
    /\ loc' = [loc EXCEPT ![t] = l]
    /\ ret' = [ret EXCEPT ![t] = NoRet]
    /\ dirty' = [dirty EXCEPT ![t] = {}]
    /\ ncalls' = IF mode = "seq" THEN ncalls + 1 ELSE ncalls

\* What a thread keeps of its locals once its call has returned: the caller's
\* output buffer.
Leave(t) == [NoLoc EXCEPT !.out = loc[t].out]

\* A call returns val (kept in ret until the thread's next call).  A
\* successful call is logged (every call in mode "seq"): arg is the length
\* the caller passed, data the bytes submitted or received, pos the position
\* the call took.
Return(t, op, val, pos) ==
    /\ pc' = [pc EXCEPT ![t] = "idle"]
    /\ ret' = [ret EXCEPT ![t] = [op |-> op, val |-> val]]
    /\ log' = IF val >= 0 \/ mode = "seq"
              THEN [log EXCEPT ![t] = Append(@,
                      [op   |-> op,
                       arg  |-> IF op = "enq" THEN BLen(loc[t].data)
                                ELSE BLen(loc[t].out),
                       data |-> IF op = "enq" THEN loc[t].data
                                ELSE IF val >= 0 THEN BTake(loc[t].out, val)
                                ELSE << >>,
                       val  |-> val,
                       pos  |-> pos])]
              ELSE log

\* ------------------------------------------------------- constructor ----
\* "if (n < 2) n = 2"
Clamp2(n) == IF n < 2 THEN 2 ELSE n

\* "(n & (n - 1)) != 0"
NotPow2(n) == BitAnd(n, n - 1) # 0

\* "cap <<= 1" on size_t
Shl1(cap) == (2 * cap) % WordMod

ctor_begin ==
    /\ ctor.pc = "begin"
    /\ LET n == Clamp2(ctor.size) IN
         ctor' = IF NotPow2(n)
                 THEN [pc |-> "loop", size |-> n, cap |-> 1]
                 ELSE [pc |-> "end", size |-> n, cap |-> 0]
    /\ UNCHANGED << cls, mode, req, size_, head_, tail_, buf_, state_,
                    pc, loc, ret, dirty, log, claims, ncalls, pool >>

ctor_loop ==
    /\ ctor.pc = "loop"
    /\ ctor' = IF ctor.cap < ctor.size
               THEN [ctor EXCEPT !.cap = Shl1(ctor.cap)]
               ELSE [pc |-> "end", size |-> ctor.cap, cap |-> 0]
    /\ UNCHANGED << cls, mode, req, size_, head_, tail_, buf_, state_,
                    pc, loc, ret, dirty, log, claims, ncalls, pool >>

\* make_unique<Node[]>(size_) value-initialises the slots; MPSCBuf and
\* MPMCBuf then store i in slot i's seq.
NewSlot(c, i) ==
    IF c = "SPSC"
    THEN [len_ |-> 0, data_ |-> Rep(0, MAX_SLOT_SIZE)]
    ELSE [seq |-> i, len_ |-> 0, data_ |-> Rep(0, MAX_NODE_SIZE)]

ctor_end ==
    /\ ctor.pc = "end"
    /\ size_' = ctor.size
    /\ buf_' = [i \in 0 .. (ctor.size - 1) |-> NewSlot(cls, i)]
    /\ ctor' = [pc |-> "done", size |-> ctor.size, cap |-> 0]
    /\ UNCHANGED << cls, mode, req, head_, tail_, state_,
                    pc, loc, ret, dirty, log, claims, ncalls, pool >>

Ctor == ctor_begin \/ ctor_loop \/ ctor_end

\* ---------------------------------------------------------- SPSCBuf ----
\* push, line 62: "if (len > MAX_SLOT_SIZE) len = MAX_SLOT_SIZE".
SPSC_truncate(len) == IF len > MAX_SLOT_SIZE THEN MAX_SLOT_SIZE ELSE len

\* push, lines 62-63: truncate len, load head_.
SPSC_push_call(t, data) ==
    /\ cls = "SPSC" /\ Started /\ CanProduce(t) /\ pc[t] = "idle"
    /\ Call(t, [NoLoc EXCEPT !.data = data,
                             !.len = SPSC_truncate(BLen(data)),
                             !.head = head_])
    /\ pc' = [pc EXCEPT ![t] = "push_full"]
    /\ UNCHANGED << fixed, head_, tail_, buf_, log, claims >>

\* A faulty push, lines 64-65: a full ring is waited for instead of reported.
SPSC_push_full_spin(t) ==
    /\ cls = "SPSC" /\ pc[t] = "push_full"
    /\ LET next == BitAnd(loc[t].head + 1, size_ - 1) IN
         IF next = tail_
         THEN UNCHANGED << pc, loc, ret, log >>
         ELSE /\ pc' = [pc EXCEPT ![t] = "push_copy"]
              /\ loc' = [loc EXCEPT ![t].next = next]
              /\ UNCHANGED << ret, log >>
    /\ UNCHANGED << fixed, head_, tail_, buf_, claims, ncalls, pool >>
    /\ Track(t)

\* A faulty push, lines 64-65: the full test compares next with the head just
\* loaded instead of tail_.
SPSC_push_full_vs_head(t) ==
    /\ cls = "SPSC" /\ pc[t] = "push_full"
    /\ LET next == BitAnd(loc[t].head + 1, size_ - 1) IN
         IF next = loc[t].head
         THEN /\ Return(t, "enq", -1, 0)
              /\ loc' = [loc EXCEPT ![t] = Leave(t)]
         ELSE /\ pc' = [pc EXCEPT ![t] = "push_copy"]
              /\ loc' = [loc EXCEPT ![t].next = next]
              /\ UNCHANGED << ret, log >>
    /\ UNCHANGED << fixed, head_, tail_, buf_, claims, ncalls, pool >>
    /\ Track(t)

\* push, lines 64-65: next, the full test against tail_.
SPSC_push_full(t) ==
    /\ cls = "SPSC" /\ pc[t] = "push_full"
    /\ LET next == BitAnd(loc[t].head + 1, size_ - 1) IN
         IF next = tail_
         THEN /\ Return(t, "enq", -1, 0)
              /\ loc' = [loc EXCEPT ![t] = Leave(t)]
         ELSE /\ pc' = [pc EXCEPT ![t] = "push_copy"]
              /\ loc' = [loc EXCEPT ![t].next = next]
              /\ UNCHANGED << ret, log >>
    /\ UNCHANGED << fixed, head_, tail_, buf_, claims, ncalls, pool >>
    /\ Track(t)

\* push, lines 66-67: copy the payload, record the length.
SPSC_push_copy(t) ==
    /\ cls = "SPSC" /\ pc[t] = "push_copy"
    /\ buf_' = [buf_ EXCEPT ![loc[t].head] =
                  [len_  |-> ToUint16(loc[t].len),
                   data_ |-> memcpy(@.data_, loc[t].data, loc[t].len)]]
    /\ pc' = [pc EXCEPT ![t] = "push_store"]
    /\ UNCHANGED << fixed, head_, tail_, loc, ret, log, claims, ncalls, pool >>
    /\ Track(t)

\* push, lines 68-69: publish head_, return the length.
SPSC_push_store(t) ==
    /\ cls = "SPSC" /\ pc[t] = "push_store"
    /\ head_' = loc[t].next
    /\ Return(t, "enq", ToInt32(loc[t].len), loc[t].head)
    /\ loc' = [loc EXCEPT ![t] = Leave(t)]
    /\ UNCHANGED << fixed, tail_, buf_, claims, ncalls, pool >>
    /\ Track(t)

\* pop, line 72: load tail_.
SPSC_pop_call(t, len) ==
    /\ cls = "SPSC" /\ Started /\ CanConsume(t) /\ pc[t] = "idle"
    /\ Call(t, [NoLoc EXCEPT !.out = OutBuf(len), !.len = len, !.tail = tail_])
    /\ pc' = [pc EXCEPT ![t] = "pop_empty"]
    /\ UNCHANGED << fixed, head_, tail_, buf_, log, claims >>

\* A faulty pop, lines 73-75: the slot is copied out before the empty test.
SPSC_pop_empty_late(t) ==
    /\ cls = "SPSC" /\ pc[t] = "pop_empty"
    /\ LET len == Min(loc[t].len, buf_[loc[t].tail].len_)
           out == memcpy(loc[t].out, buf_[loc[t].tail].data_, len) IN
         IF loc[t].tail = head_
         THEN /\ Return(t, "deq", -1, 0)
              /\ loc' = [loc EXCEPT ![t] = [NoLoc EXCEPT !.out = out]]
         ELSE /\ pc' = [pc EXCEPT ![t] = "pop_copy"]
              /\ loc' = [loc EXCEPT ![t].out = out]
              /\ UNCHANGED << ret, log >>
    /\ UNCHANGED << fixed, head_, tail_, buf_, claims, ncalls, pool >>
    /\ Track(t)

\* pop, line 73: the empty test against head_.
SPSC_pop_empty(t) ==
    /\ cls = "SPSC" /\ pc[t] = "pop_empty"
    /\ IF loc[t].tail = head_
       THEN /\ Return(t, "deq", -1, 0)
            /\ loc' = [loc EXCEPT ![t] = Leave(t)]
       ELSE /\ pc' = [pc EXCEPT ![t] = "pop_copy"]
            /\ UNCHANGED << loc, ret, log >>
    /\ UNCHANGED << fixed, head_, tail_, buf_, claims, ncalls, pool >>
    /\ Track(t)

\* pop, lines 74-75: clip len to the stored length, copy out.
SPSC_pop_copy(t) ==
    /\ cls = "SPSC" /\ pc[t] = "pop_copy"
    /\ LET len == Min(loc[t].len, buf_[loc[t].tail].len_) IN
         loc' = [loc EXCEPT ![t].len = len,
                            ![t].out = memcpy(@, buf_[loc[t].tail].data_, len)]
    /\ pc' = [pc EXCEPT ![t] = "pop_store"]
    /\ UNCHANGED << fixed, head_, tail_, buf_, ret, log, claims, ncalls, pool >>
    /\ Track(t)

\* A faulty pop, line 76: tail_ is stored back without the increment.
SPSC_pop_store_stuck(t) ==
    /\ cls = "SPSC" /\ pc[t] = "pop_store"
    /\ tail_' = loc[t].tail
    /\ Return(t, "deq", ToInt32(loc[t].len), loc[t].tail)
    /\ loc' = [loc EXCEPT ![t] = Leave(t)]
    /\ UNCHANGED << fixed, head_, buf_, claims, ncalls, pool >>
    /\ Track(t)

\* pop, lines 76-77: publish tail_, return the length.
SPSC_pop_store(t) ==
    /\ cls = "SPSC" /\ pc[t] = "pop_store"
    /\ tail_' = BitAnd(loc[t].tail + 1, size_ - 1)
    /\ Return(t, "deq", ToInt32(loc[t].len), loc[t].tail)
    /\ loc' = [loc EXCEPT ![t] = Leave(t)]
    /\ UNCHANGED << fixed, head_, buf_, claims, ncalls, pool >>
    /\ Track(t)

SPSC(t) ==
    \/ \E data \in Inputs(t) : SPSC_push_call(t, data)
    \/ SPSC_push_full(t)
    \/ SPSC_push_copy(t)
    \/ SPSC_push_store(t)
    \/ \E len \in OutLens(t) : SPSC_pop_call(t, len)
    \/ SPSC_pop_empty(t)
    \/ SPSC_pop_copy(t)
    \/ SPSC_pop_store(t)

\* ---------------------------------------------------------- MPMCBuf ----
\* The slot a position maps to: buf_[pos & (size_ - 1)].
SlotOf(pos) == BitAnd(pos, size_ - 1)

\* A faulty enqueue, lines 72-73: the length is not truncated.
MPMC_truncate_none(len) == len

\* enqueue, lines 72-73: "if (len > MAX_NODE_SIZE) len = MAX_NODE_SIZE".
MPMC_truncate(len) == IF len > MAX_NODE_SIZE THEN MAX_NODE_SIZE ELSE len

\* enqueue, lines 72-76: truncate len; first pass of the loop loads tail_.
MPMC_enqueue_call(t, data) ==
    /\ cls = "MPMC" /\ Started /\ CanProduce(t) /\ pc[t] = "idle"
    /\ Call(t, [NoLoc EXCEPT !.data = data,
                             !.len = MPMC_truncate(BLen(data)),
                             !.t = tail_])
    /\ pc' = [pc EXCEPT ![t] = "enq_seq"]
    /\ UNCHANGED << fixed, head_, tail_, buf_, log, claims >>

\* enqueue, line 76 on a later pass of the loop: load tail_.
MPMC_enqueue_tail(t) ==
    /\ cls = "MPMC" /\ pc[t] = "enq_tail"
    /\ loc' = [loc EXCEPT ![t].t = tail_]
    /\ pc' = [pc EXCEPT ![t] = "enq_seq"]
    /\ UNCHANGED << fixed, head_, tail_, buf_, ret, log, claims, ncalls, pool >>
    /\ Track(t)

\* A faulty enqueue, lines 79-81: the slot is taken for free when seq = t + 1.
MPMC_enqueue_seq_off_by_one(t) ==
    /\ cls = "MPMC" /\ pc[t] = "enq_seq"
    /\ LET diff == buf_[SlotOf(loc[t].t)].seq - (loc[t].t + 1) IN
         IF diff = 0
         THEN /\ pc' = [pc EXCEPT ![t] = "enq_cas"]
              /\ UNCHANGED << loc, ret, log >>
         ELSE IF diff < -1
         THEN /\ Return(t, "enq", -1, 0)
              /\ loc' = [loc EXCEPT ![t] = Leave(t)]
         ELSE /\ pc' = [pc EXCEPT ![t] = "enq_tail"]
              /\ UNCHANGED << loc, ret, log >>
    /\ UNCHANGED << fixed, head_, tail_, buf_, claims, ncalls, pool >>
    /\ Track(t)

\* A faulty enqueue, lines 77-81: a slot whose seq is behind the ticket (not
\* yet released) is claimed like a free one.
MPMC_enqueue_seq_no_full_test(t) ==
    /\ cls = "MPMC" /\ pc[t] = "enq_seq"
    /\ LET diff == buf_[SlotOf(loc[t].t)].seq - loc[t].t IN
         IF diff <= 0
         THEN /\ pc' = [pc EXCEPT ![t] = "enq_cas"]
              /\ UNCHANGED << loc, ret, log >>
         ELSE /\ pc' = [pc EXCEPT ![t] = "enq_tail"]
              /\ UNCHANGED << loc, ret, log >>
    /\ UNCHANGED << fixed, head_, tail_, buf_, claims, ncalls, pool >>
    /\ Track(t)

\* enqueue, lines 77-81 and 92-100: load the slot's seq, branch on diff.
MPMC_enqueue_seq(t) ==
    /\ cls = "MPMC" /\ pc[t] = "enq_seq"
    /\ LET diff == buf_[SlotOf(loc[t].t)].seq - loc[t].t IN
         IF diff = 0
         THEN /\ pc' = [pc EXCEPT ![t] = "enq_cas"]
              /\ UNCHANGED << loc, ret, log >>
         ELSE IF diff < 0
         THEN /\ Return(t, "enq", -1, 0)
              /\ loc' = [loc EXCEPT ![t] = Leave(t)]
         ELSE /\ pc' = [pc EXCEPT ![t] = "enq_tail"]
              /\ UNCHANGED << loc, ret, log >>
    /\ UNCHANGED << fixed, head_, tail_, buf_, claims, ncalls, pool >>
    /\ Track(t)

\* enqueue, lines 82-85: tail_.compare_exchange_weak(t, t + 1).
MPMC_enqueue_cas(t) ==
    /\ cls = "MPMC" /\ pc[t] = "enq_cas"
    /\ IF tail_ = loc[t].t
       THEN /\ tail_' = loc[t].t + 1
            /\ pc' = [pc EXCEPT ![t] = "enq_copy"]
            /\ UNCHANGED loc
       ELSE /\ loc' = [loc EXCEPT ![t].t = tail_]
            /\ pc' = [pc EXCEPT ![t] = "enq_tail"]
            /\ UNCHANGED tail_
    /\ UNCHANGED << fixed, head_, buf_, ret, log, claims, ncalls, pool >>
    /\ Track(t)

\* enqueue, lines 82-85: compare_exchange_weak may fail although tail_ = t.
MPMC_enqueue_cas_spurious(t) ==
    /\ cls = "MPMC" /\ pc[t] = "enq_cas"
    /\ tail_ = loc[t].t
    /\ pc' = [pc EXCEPT ![t] = "enq_tail"]
    /\ UNCHANGED << fixed, head_, tail_, buf_, loc, ret, log, claims, ncalls, pool >>
    /\ Track(t)

\* enqueue, lines 87-88: copy the payload into the slot, record the length.
MPMC_enqueue_copy(t) ==
    /\ cls = "MPMC" /\ pc[t] = "enq_copy"
    /\ buf_' = [buf_ EXCEPT ![SlotOf(loc[t].t)] =
                  [@ EXCEPT !.len_  = ToUint16(loc[t].len),
                            !.data_ = memcpy(@, loc[t].data, loc[t].len)]]
    /\ pc' = [pc EXCEPT ![t] = "enq_pub"]
    /\ UNCHANGED << fixed, head_, tail_, loc, ret, log, claims, ncalls, pool >>
    /\ Track(t)

\* enqueue, lines 89-90: publish seq = t + 1, return the length.
MPMC_enqueue_pub(t) ==
    /\ cls = "MPMC" /\ pc[t] = "enq_pub"
    /\ buf_' = [buf_ EXCEPT ![SlotOf(loc[t].t)].seq = loc[t].t + 1]
    /\ Return(t, "enq", ToInt32(loc[t].len), loc[t].t)
    /\ loc' = [loc EXCEPT ![t] = Leave(t)]
    /\ UNCHANGED << fixed, head_, tail_, claims, ncalls, pool >>
    /\ Track(t)

\* dequeue, line 108: first pass of the loop loads head_.
MPMC_dequeue_call(t, len) ==
    /\ cls = "MPMC" /\ Started /\ CanConsume(t) /\ pc[t] = "idle"
    /\ Call(t, [NoLoc EXCEPT !.out = OutBuf(len), !.len = len, !.h = head_])
    /\ pc' = [pc EXCEPT ![t] = "deq_seq"]
    /\ UNCHANGED << fixed, head_, tail_, buf_, log, claims >>

\* dequeue, line 108 on a later pass of the loop: load head_.
MPMC_dequeue_head(t) ==
    /\ cls = "MPMC" /\ pc[t] = "deq_head"
    /\ loc' = [loc EXCEPT ![t].h = head_]
    /\ pc' = [pc EXCEPT ![t] = "deq_seq"]
    /\ UNCHANGED << fixed, head_, tail_, buf_, ret, log, claims, ncalls, pool >>
    /\ Track(t)

\* dequeue, lines 109-113 and 125-133: load the slot's seq, branch on diff.
MPMC_dequeue_seq(t) ==
    /\ cls = "MPMC" /\ pc[t] = "deq_seq"
    /\ LET diff == buf_[SlotOf(loc[t].h)].seq - (loc[t].h + 1) IN
         IF diff = 0
         THEN /\ pc' = [pc EXCEPT ![t] = "deq_cas"]
              /\ UNCHANGED << loc, ret, log >>
         ELSE IF diff < 0
         THEN /\ Return(t, "deq", -1, 0)
              /\ loc' = [loc EXCEPT ![t] = Leave(t)]
         ELSE /\ pc' = [pc EXCEPT ![t] = "deq_head"]
              /\ UNCHANGED << loc, ret, log >>
    /\ UNCHANGED << fixed, head_, tail_, buf_, claims, ncalls, pool >>
    /\ Track(t)

\* A faulty dequeue, lines 114-117: the head_ exchange without the comparison,
\* a plain store of h + 1.
MPMC_dequeue_cas_unchecked(t) ==
    /\ cls = "MPMC" /\ pc[t] = "deq_cas"
    /\ head_' = loc[t].h + 1
    /\ claims' = Append(claims, loc[t].h)
    /\ pc' = [pc EXCEPT ![t] = "deq_copy"]
    /\ UNCHANGED << fixed, tail_, buf_, loc, ret, log, ncalls >>
    /\ Track(t)

\* dequeue, lines 114-117: head_.compare_exchange_weak(h, h + 1).
MPMC_dequeue_cas(t) ==
    /\ cls = "MPMC" /\ pc[t] = "deq_cas"
    /\ IF head_ = loc[t].h
       THEN /\ head_' = loc[t].h + 1
            /\ claims' = Append(claims, loc[t].h)
            /\ pc' = [pc EXCEPT ![t] = "deq_copy"]
            /\ UNCHANGED loc
       ELSE /\ loc' = [loc EXCEPT ![t].h = head_]
            /\ pc' = [pc EXCEPT ![t] = "deq_head"]
            /\ UNCHANGED << head_, claims >>
    /\ UNCHANGED << fixed, tail_, buf_, ret, log, ncalls >>
    /\ Track(t)

\* dequeue, lines 114-117: compare_exchange_weak may fail although head_ = h.
MPMC_dequeue_cas_spurious(t) ==
    /\ cls = "MPMC" /\ pc[t] = "deq_cas"
    /\ head_ = loc[t].h
    /\ pc' = [pc EXCEPT ![t] = "deq_head"]
    /\ UNCHANGED << fixed, head_, tail_, buf_, loc, ret, log, claims, ncalls, pool >>
    /\ Track(t)

\* A faulty dequeue, lines 119-121: the payload is read from the slot after the
\* one claimed.
MPMC_dequeue_copy_next(t) ==
    /\ cls = "MPMC" /\ pc[t] = "deq_copy"
    /\ LET slot == buf_[SlotOf(loc[t].h + 1)]
           len  == Min(loc[t].len, slot.len_) IN
         loc' = [loc EXCEPT ![t].len = len,
                            ![t].out = memcpy(@, slot.data_, len)]
    /\ pc' = [pc EXCEPT ![t] = "deq_rel"]
    /\ UNCHANGED << fixed, head_, tail_, buf_, ret, log, claims, ncalls, pool >>
    /\ Track(t)

\* A faulty dequeue, lines 119-121: the caller's len is not clipped to the
\* stored length.
MPMC_dequeue_copy_unclipped(t) ==
    /\ cls = "MPMC" /\ pc[t] = "deq_copy"
    /\ LET slot == buf_[SlotOf(loc[t].h)]
           len  == loc[t].len IN
         loc' = [loc EXCEPT ![t].len = len,
                            ![t].out = memcpy(@, slot.data_, len)]
    /\ pc' = [pc EXCEPT ![t] = "deq_rel"]
    /\ UNCHANGED << fixed, head_, tail_, buf_, ret, log, claims, ncalls, pool >>
    /\ Track(t)

\* dequeue, lines 119-121: clip len to the stored length, copy out.
MPMC_dequeue_copy(t) ==
    /\ cls = "MPMC" /\ pc[t] = "deq_copy"
    /\ LET slot == buf_[SlotOf(loc[t].h)]
           len  == Min(loc[t].len, slot.len_) IN
         loc' = [loc EXCEPT ![t].len = len,
                            ![t].out = memcpy(@, slot.data_, len)]
    /\ pc' = [pc EXCEPT ![t] = "deq_rel"]
    /\ UNCHANGED << fixed, head_, tail_, buf_, ret, log, claims, ncalls, pool >>
    /\ Track(t)

\* A faulty dequeue, lines 122-123: the slot is released with the mask added
\* instead of the capacity.
MPMC_dequeue_rel_mask(t) ==
    /\ cls = "MPMC" /\ pc[t] = "deq_rel"
    /\ buf_' = [buf_ EXCEPT ![SlotOf(loc[t].h)].seq = loc[t].h + (size_ - 1)]
    /\ Return(t, "deq", ToInt32(loc[t].len), loc[t].h)
    /\ loc' = [loc EXCEPT ![t] = Leave(t)]
    /\ UNCHANGED << fixed, head_, tail_, claims, ncalls, pool >>
    /\ Track(t)

\* dequeue, lines 122-123: release the slot with seq = h + size_, return.
MPMC_dequeue_rel(t) ==
    /\ cls = "MPMC" /\ pc[t] = "deq_rel"
    /\ buf_' = [buf_ EXCEPT ![SlotOf(loc[t].h)].seq = loc[t].h + size_]
    /\ Return(t, "deq", ToInt32(loc[t].len), loc[t].h)
    /\ loc' = [loc EXCEPT ![t] = Leave(t)]
    /\ UNCHANGED << fixed, head_, tail_, claims, ncalls, pool >>
    /\ Track(t)

MPMC(t) ==
    \/ \E data \in Inputs(t) : MPMC_enqueue_call(t, data)
    \/ MPMC_enqueue_tail(t)
    \/ MPMC_enqueue_seq(t)
    \/ MPMC_enqueue_cas(t)
    \/ MPMC_enqueue_cas_spurious(t)
    \/ MPMC_enqueue_copy(t)
    \/ MPMC_enqueue_pub(t)
    \/ \E len \in OutLens(t) : MPMC_dequeue_call(t, len)
    \/ MPMC_dequeue_head(t)
    \/ MPMC_dequeue_seq(t)
    \/ MPMC_dequeue_cas(t)
    \/ MPMC_dequeue_cas_spurious(t)
    \/ MPMC_dequeue_copy(t)
    \/ MPMC_dequeue_rel(t)

\* ---------------------------------------------------------- MPSCBuf ----
\* enqueue, lines 66-67: "if (len > MAX_NODE_SIZE) len = MAX_NODE_SIZE".
MPSC_truncate(len) == IF len > MAX_NODE_SIZE THEN MAX_NODE_SIZE ELSE len

\* enqueue, lines 66-70: truncate len; first pass of the loop loads tail_.
MPSC_enqueue_call(t, data) ==
    /\ cls = "MPSC" /\ Started /\ CanProduce(t) /\ pc[t] = "idle"
    /\ Call(t, [NoLoc EXCEPT !.data = data,
                             !.len = MPSC_truncate(BLen(data)),
                             !.t = tail_])
    /\ pc' = [pc EXCEPT ![t] = "enq_seq"]
    /\ UNCHANGED << fixed, head_, tail_, buf_, log, claims >>

\* enqueue, line 70 on a later pass of the loop: load tail_.
MPSC_enqueue_tail(t) ==
    /\ cls = "MPSC" /\ pc[t] = "enq_tail"
    /\ loc' = [loc EXCEPT ![t].t = tail_]
    /\ pc' = [pc EXCEPT ![t] = "enq_seq"]
    /\ UNCHANGED << fixed, head_, tail_, buf_, ret, log, claims, ncalls, pool >>
    /\ Track(t)

\* A faulty enqueue, lines 71-75: a slot whose seq is behind the ticket (not
\* yet released) is claimed like a free one.
MPSC_enqueue_seq_no_full_test(t) ==
    /\ cls = "MPSC" /\ pc[t] = "enq_seq"
    /\ LET diff == buf_[SlotOf(loc[t].t)].seq - loc[t].t IN
         IF diff <= 0
         THEN /\ pc' = [pc EXCEPT ![t] = "enq_cas"]
              /\ UNCHANGED << loc, ret, log >>
         ELSE /\ pc' = [pc EXCEPT ![t] = "enq_tail"]
              /\ UNCHANGED << loc, ret, log >>
    /\ UNCHANGED << fixed, head_, tail_, buf_, claims, ncalls, pool >>
    /\ Track(t)

\* enqueue, lines 71-75 and 86-94: load the slot's seq, branch on diff.
MPSC_enqueue_seq(t) ==
    /\ cls = "MPSC" /\ pc[t] = "enq_seq"
    /\ LET diff == buf_[SlotOf(loc[t].t)].seq - loc[t].t IN
         IF diff = 0
         THEN /\ pc' = [pc EXCEPT ![t] = "enq_cas"]
              /\ UNCHANGED << loc, ret, log >>
         ELSE IF diff < 0
         THEN /\ Return(t, "enq", -1, 0)
              /\ loc' = [loc EXCEPT ![t] = Leave(t)]
         ELSE /\ pc' = [pc EXCEPT ![t] = "enq_tail"]
              /\ UNCHANGED << loc, ret, log >>
    /\ UNCHANGED << fixed, head_, tail_, buf_, claims, ncalls, pool >>
    /\ Track(t)

\* enqueue, lines 76-79: tail_.compare_exchange_weak(t, t + 1).
MPSC_enqueue_cas(t) ==
    /\ cls = "MPSC" /\ pc[t] = "enq_cas"
    /\ IF tail_ = loc[t].t
       THEN /\ tail_' = loc[t].t + 1
            /\ pc' = [pc EXCEPT ![t] = "enq_copy"]
            /\ UNCHANGED loc
       ELSE /\ loc' = [loc EXCEPT ![t].t = tail_]
            /\ pc' = [pc EXCEPT ![t] = "enq_tail"]
            /\ UNCHANGED tail_
    /\ UNCHANGED << fixed, head_, buf_, ret, log, claims, ncalls, pool >>
    /\ Track(t)

\* enqueue, lines 76-79: compare_exchange_weak may fail although tail_ = t.
MPSC_enqueue_cas_spurious(t) ==
    /\ cls = "MPSC" /\ pc[t] = "enq_cas"
    /\ tail_ = loc[t].t
    /\ pc' = [pc EXCEPT ![t] = "enq_tail"]
    /\ UNCHANGED << fixed, head_, tail_, buf_, loc, ret, log, claims, ncalls, pool >>
    /\ Track(t)

\* enqueue, lines 81-82: copy the payload into the slot, record the length.
MPSC_enqueue_copy(t) ==
    /\ cls = "MPSC" /\ pc[t] = "enq_copy"
    /\ buf_' = [buf_ EXCEPT ![SlotOf(loc[t].t)] =
                  [@ EXCEPT !.len_  = ToUint16(loc[t].len),
                            !.data_ = memcpy(@, loc[t].data, loc[t].len)]]
    /\ pc' = [pc EXCEPT ![t] = "enq_pub"]
    /\ UNCHANGED << fixed, head_, tail_, loc, ret, log, claims, ncalls, pool >>
    /\ Track(t)

\* enqueue, lines 83-84: publish seq = t + 1, return the length.
MPSC_enqueue_pub(t) ==
    /\ cls = "MPSC" /\ pc[t] = "enq_pub"
    /\ buf_' = [buf_ EXCEPT ![SlotOf(loc[t].t)].seq = loc[t].t + 1]
    /\ Return(t, "enq", ToInt32(loc[t].len), loc[t].t)
    /\ loc' = [loc EXCEPT ![t] = Leave(t)]
    /\ UNCHANGED << fixed, head_, tail_, claims, ncalls, pool >>
    /\ Track(t)

\* dequeue, line 104: load head_.
MPSC_dequeue_call(t, len) ==
    /\ cls = "MPSC" /\ Started /\ CanConsume(t) /\ pc[t] = "idle"
    /\ Call(t, [NoLoc EXCEPT !.out = OutBuf(len), !.len = len, !.h = head_])
    /\ pc' = [pc EXCEPT ![t] = "deq_seq"]
    /\ UNCHANGED << fixed, head_, tail_, buf_, log, claims >>

\* dequeue, lines 105-110: load the slot's seq, return -1 when diff < 0.
MPSC_dequeue_seq(t) ==
    /\ cls = "MPSC" /\ pc[t] = "deq_seq"
    /\ LET diff == buf_[SlotOf(loc[t].h)].seq - (loc[t].h + 1) IN
         IF diff < 0
         THEN /\ Return(t, "deq", -1, 0)
              /\ loc' = [loc EXCEPT ![t] = Leave(t)]
         ELSE /\ pc' = [pc EXCEPT ![t] = "deq_copy"]
              /\ UNCHANGED << loc, ret, log >>
    /\ UNCHANGED << fixed, head_, tail_, buf_, claims, ncalls, pool >>
    /\ Track(t)

\* dequeue, lines 112-115: clip len to the stored length, copy out.
MPSC_dequeue_copy(t) ==
    /\ cls = "MPSC" /\ pc[t] = "deq_copy"
    /\ LET slot == buf_[SlotOf(loc[t].h)]
           len  == Min(loc[t].len, slot.len_) IN
         loc' = [loc EXCEPT ![t].len = len,
                            ![t].out = memcpy(@, slot.data_, len)]
    /\ claims' = Append(claims, loc[t].h)
    /\ pc' = [pc EXCEPT ![t] = "deq_rel"]
    /\ UNCHANGED << fixed, head_, tail_, buf_, ret, log, ncalls >>
    /\ Track(t)

\* dequeue, line 116: release the slot with seq = h + size_.
MPSC_dequeue_rel(t) ==
    /\ cls = "MPSC" /\ pc[t] = "deq_rel"
    /\ buf_' = [buf_ EXCEPT ![SlotOf(loc[t].h)].seq = loc[t].h + size_]
    /\ pc' = [pc EXCEPT ![t] = "deq_store"]
    /\ UNCHANGED << fixed, head_, tail_, loc, ret, log, claims, ncalls, pool >>
    /\ Track(t)

\* A faulty dequeue, line 117: head_ is stored back without the increment.
MPSC_dequeue_store_stuck(t) ==
    /\ cls = "MPSC" /\ pc[t] = "deq_store"
    /\ head_' = loc[t].h
    /\ Return(t, "deq", ToInt32(loc[t].len), loc[t].h)
    /\ loc' = [loc EXCEPT ![t] = Leave(t)]
    /\ UNCHANGED << fixed, tail_, buf_, claims, ncalls, pool >>
    /\ Track(t)

\* dequeue, lines 117-118: store head_ = h + 1, return the length.
MPSC_dequeue_store(t) ==
    /\ cls = "MPSC" /\ pc[t] = "deq_store"
    /\ head_' = loc[t].h + 1
    /\ Return(t, "deq", ToInt32(loc[t].len), loc[t].h)
    /\ loc' = [loc EXCEPT ![t] = Leave(t)]
    /\ UNCHANGED << fixed, tail_, buf_, claims, ncalls, pool >>
    /\ Track(t)

MPSC(t) ==
    \/ \E data \in Inputs(t) : MPSC_enqueue_call(t, data)
    \/ MPSC_enqueue_tail(t)
    \/ MPSC_enqueue_seq(t)
    \/ MPSC_enqueue_cas(t)
    \/ MPSC_enqueue_cas_spurious(t)
    \/ MPSC_enqueue_copy(t)
    \/ MPSC_enqueue_pub(t)
    \/ \E len \in OutLens(t) : MPSC_dequeue_call(t, len)
    \/ MPSC_dequeue_seq(t)
    \/ MPSC_dequeue_copy(t)
    \/ MPSC_dequeue_rel(t)
    \/ MPSC_dequeue_store(t)

\* -------------------------------------------------------- RWSpinLock ----
WRITER_BIT == Pow2(StateBits - 1)
READER_INC == 1
StateMod   == Pow2(StateBits)

\* A faulty writer test: the mask is READER_INC instead of WRITER_BIT.
WriterActive_reader_mask(old) == BitAnd(old, READER_INC) # 0

\* "old & WRITER_BIT"
WriterActive(old) == BitAnd(old, WRITER_BIT) # 0

rwfixed == << cls, mode, req, ctor, size_, head_, tail_, buf_,
              ret, dirty, log, claims, ncalls, pool >>

\* lock_shared, lines 54-59: load state_; back off while the writer bit is set.
RW_lock_shared_load(t) ==
    /\ cls = "RW" /\ pc[t] \in {"idle", "ls_load"}
    /\ loc' = [loc EXCEPT ![t].old = state_]
    /\ pc' = [pc EXCEPT ![t] = IF WriterActive(state_) THEN "ls_load" ELSE "ls_cas"]
    /\ UNCHANGED << rwfixed, state_ >>

\* lock_shared, lines 61-64: state_.compare_exchange_weak(old, old + READER_INC).
RW_lock_shared_cas(t) ==
    /\ cls = "RW" /\ pc[t] = "ls_cas"
    /\ IF state_ = loc[t].old
       THEN /\ state_' = (loc[t].old + READER_INC) % StateMod
            /\ pc' = [pc EXCEPT ![t] = "reading"]
            /\ loc' = [loc EXCEPT ![t] = NoLoc]
       ELSE /\ loc' = [loc EXCEPT ![t].old = state_]
            /\ pc' = [pc EXCEPT ![t] = "ls_load"]
            /\ UNCHANGED state_
    /\ UNCHANGED rwfixed

\* lock_shared, lines 61-64: compare_exchange_weak may fail although
\* state_ = old.
RW_lock_shared_cas_spurious(t) ==
    /\ cls = "RW" /\ pc[t] = "ls_cas"
    /\ state_ = loc[t].old
    /\ pc' = [pc EXCEPT ![t] = "ls_load"]
    /\ UNCHANGED << rwfixed, state_, loc >>

\* unlock_shared, line 70: state_.fetch_sub(READER_INC), by a shared holder.
RW_unlock_shared(t) ==
    /\ cls = "RW" /\ pc[t] = "reading"
    /\ state_' = (state_ - READER_INC) % StateMod
    /\ pc' = [pc EXCEPT ![t] = "idle"]
    /\ UNCHANGED << rwfixed, loc >>

\* A faulty lock(): the writer bit is set over the readers that hold the
\* lock, as soon as no other writer has it.
RW_lock_cas_over_readers(t) ==
    /\ cls = "RW" /\ pc[t] \in {"idle", "w_cas"}
    /\ IF ~WriterActive(state_)
       THEN /\ state_' = (state_ + WRITER_BIT) % StateMod
            /\ pc' = [pc EXCEPT ![t] = "w_wait"]
       ELSE /\ pc' = [pc EXCEPT ![t] = "w_cas"]
            /\ UNCHANGED state_
    /\ UNCHANGED << rwfixed, loc >>

\* lock, lines 76-82: state_.compare_exchange_weak(0, WRITER_BIT), retried
\* until it succeeds.
RW_lock_cas(t) ==
    /\ cls = "RW" /\ pc[t] \in {"idle", "w_cas"}
    /\ IF state_ = 0
       THEN /\ state_' = WRITER_BIT
            /\ pc' = [pc EXCEPT ![t] = "w_wait"]
       ELSE /\ pc' = [pc EXCEPT ![t] = "w_cas"]
            /\ UNCHANGED state_
    /\ UNCHANGED << rwfixed, loc >>

\* lock, lines 76-82: compare_exchange_weak may fail although state_ = 0.
RW_lock_cas_spurious(t) ==
    /\ cls = "RW" /\ pc[t] \in {"idle", "w_cas"}
    /\ state_ = 0
    /\ pc' = [pc EXCEPT ![t] = "w_cas"]
    /\ UNCHANGED << rwfixed, state_, loc >>

\* A faulty drain loop: lock() waits for state_ to be 0 instead of
\* WRITER_BIT.
RW_lock_wait_for_zero(t) ==
    /\ cls = "RW" /\ pc[t] = "w_wait"
    /\ pc' = [pc EXCEPT ![t] = IF state_ = 0 THEN "writing" ELSE "w_wait"]
    /\ UNCHANGED << rwfixed, state_, loc >>

\* lock, lines 84-86: spin until state_ is WRITER_BIT exactly, then return.
RW_lock_wait(t) ==
    /\ cls = "RW" /\ pc[t] = "w_wait"
    /\ pc' = [pc EXCEPT ![t] = IF state_ = WRITER_BIT THEN "writing" ELSE "w_wait"]
    /\ UNCHANGED << rwfixed, state_, loc >>

\* unlock, line 91: state_.store(0), by the thread whose lock() returned.
RW_unlock(t) ==
    /\ cls = "RW" /\ pc[t] = "writing"
    /\ state_' = 0
    /\ pc' = [pc EXCEPT ![t] = "idle"]
    /\ UNCHANGED << rwfixed, loc >>

RW(t) ==
    \/ RW_lock_shared_load(t)
    \/ RW_lock_shared_cas(t)
    \/ RW_lock_shared_cas_spurious(t)
    \/ RW_unlock_shared(t)
    \/ RW_lock_cas(t)
    \/ RW_lock_cas_spurious(t)
    \/ RW_lock_wait(t)
    \/ RW_unlock(t)

\* ------------------------------------------- Thread, Pthread, WorkerPool ----
\* A Worker is a Thread or a Pthread: thread_id_ is 0 until a thread has been
\* created and from its join on (thread_.joinable() in Thread), running tells
\* that the created thread is inside thread_loop(), held that setup() has
\* taken resources cleanup() has not released.
NewWorker == [thread_id_ |-> 0, thread_term_ |-> FALSE,
              running |-> FALSE, held |-> FALSE]

\* What may happen in start_thread(): setup() returns false, creating the
\* thread fails (pthread_create), or the thread starts.
Outcomes == {"ok", "setup", "create"}

\* cleanup() releases what setup() took; calling it again changes nothing.
cleanup(w) == [w EXCEPT !.held = FALSE]

\* Thread::start_thread / Pthread::start_thread with outcome o: the worker
\* afterwards and the value returned.
start_thread(w, o) ==
    IF w.thread_id_ # 0 THEN [w |-> w, val |-> FALSE]
    ELSE IF o = "setup" THEN [w |-> cleanup(w), val |-> FALSE]
    ELSE IF o = "create" THEN [w |-> cleanup([w EXCEPT !.held = TRUE]), val |-> FALSE]
    ELSE [w |-> [w EXCEPT !.held = TRUE, !.thread_id_ = 1, !.running = TRUE],
          val |-> TRUE]

\* Thread::stop_thread / Pthread::stop_thread: tell the thread to end, join
\* it (thread_loop() ends on thread_term_), then cleanup().
stop_thread(w) ==
    IF w.thread_id_ # 0
    THEN cleanup([w EXCEPT !.thread_term_ = TRUE, !.running = FALSE, !.thread_id_ = 0])
    ELSE cleanup(w)

get_thread_term(w) == w.thread_term_

\* thread_func: thread_loop() of worker i throws; the handler stores true in
\* thread_term_ and the thread ends.
Worker_throw(i) ==
    /\ cls = "POOL" /\ i \in DOMAIN workers_ /\ workers_[i].running
    /\ workers_' = [workers_ EXCEPT ![i].thread_term_ = TRUE, ![i].running = FALSE]
    /\ last' = [last EXCEPT !.quiet = FALSE]
    /\ UNCHANGED << cls, mode, req, ctor, size_, head_, tail_, buf_, state_,
                    pc, loc, ret, dirty, log, claims, ncalls,
                    thread_cnt_, start_flag_ >>

\* thread_func: thread_loop() of worker i finds thread_term_ set and returns.
Worker_return(i) ==
    /\ cls = "POOL" /\ i \in DOMAIN workers_
    /\ workers_[i].running /\ workers_[i].thread_term_
    /\ workers_' = [workers_ EXCEPT ![i].running = FALSE]
    /\ UNCHANGED << cls, mode, req, ctor, size_, head_, tail_, buf_, state_,
                    pc, loc, ret, dirty, log, claims, ncalls,
                    thread_cnt_, start_flag_, last >>

\* The pool as stop_pool() leaves it, from workers ws and flag f: every
\* worker stopped, workers_ cleared (each destructor calls stop_thread()
\* again), the flag false; nothing at all when the flag is false.
stop_pool_from(ws, f) ==
    IF f
    THEN [workers_ |-> << >>, start_flag_ |-> FALSE,
          cleared |-> [i \in DOMAIN ws |-> stop_thread(stop_thread(ws[i]))]]
    ELSE [workers_ |-> ws, start_flag_ |-> f, cleared |-> << >>]

\* start_pool, lines 67-72: start the workers from i on, each with its
\* outcome; the first that fails stops the pool.
RECURSIVE StartFrom(_, _, _)
StartFrom(ws, i, o) ==
    IF i > thread_cnt_
    THEN [workers_ |-> ws, start_flag_ |-> TRUE, cleared |-> << >>, val |-> TRUE]
    ELSE LET r == start_thread(ws[i], o[i])
             w2 == [ws EXCEPT ![i] = r.w]
         IN  IF r.val
             THEN StartFrom(w2, i + 1, o)
             ELSE [val |-> FALSE] @@ stop_pool_from(w2, TRUE)

PoolRest == << cls, mode, req, ctor, size_, head_, tail_, buf_, state_,
               pc, loc, ret, dirty, log, claims, ncalls >>

Report(op, val, dead, fail, restarted, cleared) ==
    [n |-> last.n + 1, op |-> op, val |-> val, quiet |-> TRUE,
     dead |-> dead, fail |-> fail, restarted |-> restarted, cleared |-> cleared]

\* A faulty start_pool(): a worker that fails to start makes it return false
\* with the pool left as it is.
start_pool_no_rollback(o) ==
    /\ cls = "POOL" /\ last.n < PoolCalls
    /\ IF start_flag_
       THEN /\ last' = Report("start", FALSE, 0, 0, {}, << >>)
            /\ UNCHANGED << workers_, start_flag_ >>
       ELSE LET ws == [i \in 1 .. thread_cnt_ |-> NewWorker]
                r  == StartFrom(ws, 1, o)
            IN  /\ workers_' = IF r.val THEN r.workers_ ELSE ws
                /\ start_flag_' = TRUE
                /\ last' = Report("start", r.val, 0, 0, {}, << >>)
    /\ UNCHANGED << PoolRest, thread_cnt_ >>

\* WorkerPool::start_pool, the workers' outcomes being o.
start_pool(o) ==
    /\ cls = "POOL" /\ last.n < PoolCalls
    /\ IF start_flag_
       THEN /\ last' = Report("start", FALSE, 0, 0, {}, << >>)
            /\ UNCHANGED << workers_, start_flag_ >>
       ELSE LET r == StartFrom([i \in 1 .. thread_cnt_ |-> NewWorker], 1, o) IN
            /\ workers_' = r.workers_
            /\ start_flag_' = r.start_flag_
            /\ last' = Report("start", r.val, 0, 0, {}, r.cleared)
    /\ UNCHANGED << PoolRest, thread_cnt_ >>

\* WorkerPool::stop_pool.
stop_pool ==
    /\ cls = "POOL" /\ last.n < PoolCalls
    /\ LET r == stop_pool_from(workers_, start_flag_) IN
         /\ workers_' = r.workers_
         /\ start_flag_' = r.start_flag_
         /\ last' = Report("stop", TRUE, 0, 0, {}, r.cleared)
    /\ UNCHANGED << PoolRest, thread_cnt_ >>

\* monitor_pool, lines 92-100: worker i, found terminated, is stopped and
\* started again with outcome o[i].
Recover(w, o) == IF get_thread_term(w) THEN start_thread(stop_thread(w), o)
                                       ELSE [w |-> w, val |-> TRUE]

\* WorkerPool::monitor_pool, the outcomes of the restarts being o.
monitor_pool(o) ==
    /\ cls = "POOL" /\ last.n < PoolCalls
    /\ IF ~start_flag_
       THEN /\ last' = Report("monitor", FALSE, 0, 0, {}, << >>)
            /\ UNCHANGED << workers_, start_flag_ >>
       ELSE LET dead == { i \in 1 .. thread_cnt_ : get_thread_term(workers_[i]) }
                ws   == [i \in 1 .. thread_cnt_ |-> Recover(workers_[i], o[i]).w]
                fail == { i \in dead : ~Recover(workers_[i], o[i]).val }
                r    == IF fail # {}
                        THEN stop_pool_from(ws, start_flag_)
                        ELSE [workers_ |-> ws, start_flag_ |-> start_flag_,
                              cleared |-> << >>]
            IN  /\ workers_' = r.workers_
                /\ start_flag_' = r.start_flag_
                /\ last' = Report("monitor", fail = {}, Cardinality(dead),
                                  Cardinality(fail), dead \ fail, r.cleared)
    /\ UNCHANGED << PoolRest, thread_cnt_ >>

\* ------------------------------------------------------ specifications ----
InitObject(c, m, r) ==
    /\ cls = c /\ mode = m /\ req = r
    /\ ctor = [pc |-> "begin", size |-> r, cap |-> 0]
    /\ size_ = 0 /\ head_ = 0 /\ tail_ = 0 /\ buf_ = << >>
    /\ state_ = 0
    /\ pc = [t \in Threads |-> "idle"]
    /\ loc = [t \in Threads |-> NoLoc]
    /\ ret = [t \in Threads |-> NoRet]
    /\ dirty = [t \in Threads |-> {}]
    /\ log = [t \in Threads |-> << >>]
    /\ claims = << >>
    /\ ncalls = 0
    /\ NoPool

QueueClasses == {"SPSC", "MPSC", "MPMC"}

\* The sizes requested in the queue specifications: capacities 2 and 4.
QueueReqs == {1, MaxReq}

\* Threads in their roles, one-byte messages.
InitQ == \E c \in QueueClasses, r \in QueueReqs : InitObject(c, "conc", r)

NextQ == Ctor \/ \E t \in Threads : SPSC(t) \/ MPSC(t) \/ MPMC(t)

SpecQ == InitQ /\ [][NextQ]_vars

\* One caller, one call at a time, messages and buffers of every length.
InitSeq == \E c \in QueueClasses, r \in QueueReqs : InitObject(c, "seq", r)

SpecSeq == InitSeq /\ [][NextQ]_vars

\* MPSCBuf with fair scheduling: every thread that can take a step eventually
\* takes one, a compare-exchange that is retried does not fail spuriously for
\* ever, and the consumer keeps calling dequeue.
InitMPSC == \E r \in QueueReqs : InitObject("MPSC", "conc", r)

NextMPSC == Ctor \/ \E t \in Threads : MPSC(t)

FairMPSC ==
    /\ WF_vars(Ctor)
    /\ \A t \in Threads : WF_vars(MPSC(t))
    /\ \A t \in Producers : SF_vars(MPSC_enqueue_cas(t))

SpecMPSCFair == InitMPSC /\ [][NextMPSC]_vars /\ FairMPSC

\* A queue of class c as its constructor leaves it for a requested size n
\* that is a power of two, n >= 2.
Constructed(c, m, n) ==
    /\ cls = c /\ mode = m /\ req = n
    /\ ctor = [pc |-> "done", size |-> n, cap |-> 0]
    /\ size_ = n /\ head_ = 0 /\ tail_ = 0
    /\ buf_ = [i \in 0 .. (n - 1) |-> NewSlot(c, i)]
    /\ state_ = 0
    /\ pc = [t \in Threads |-> "idle"]
    /\ loc = [t \in Threads |-> NoLoc]
    /\ ret = [t \in Threads |-> NoRet]
    /\ dirty = [t \in Threads |-> {}]
    /\ log = [t \in Threads |-> << >>]
    /\ claims = << >>
    /\ ncalls = 0
    /\ NoPool

\* The queues with claim loops, of capacity 2, threads in their roles,
\* scheduled in any way at all.
InitLoops == \E c \in {"MPSC", "MPMC"} : Constructed(c, "conc", 2)

NextLoops == \E t \in Threads : MPSC(t) \/ MPMC(t)

SpecLoops == InitLoops /\ [][NextLoops]_vars

\* The constructors alone, on every size a size_t holds.  A constructor that
\* is running keeps running.
InitCtor == \E c \in QueueClasses, r \in 0 .. (WordMod - 1) : InitObject(c, "seq", r)

SpecCtor == InitCtor /\ [][Ctor]_vars /\ WF_vars(Ctor)

\* The lock, used by threads that release only what they hold.
InitRW == InitObject("RW", "conc", 0) /\ ctor.pc = "begin"

NextRW == \E t \in Threads : RW(t)

SpecRW == InitRW /\ [][NextRW]_vars

\* The lock under fair scheduling: a thread inside a call keeps taking steps
\* (so every holder releases), and a compare-exchange that could succeed
\* again and again does not fail spuriously for ever.
FairRW ==
    \A t \in Threads :
        /\ WF_vars(pc[t] # "idle" /\ RW(t))
        /\ SF_vars(pc[t] = "ls_cas" /\ RW_lock_shared_cas(t))
        /\ SF_vars(pc[t] = "w_cas" /\ RW_lock_cas(t))

SpecRWFair == InitRW /\ [][NextRW]_vars /\ FairRW

\* WorkerPool(thread_cnt) for thread_cnt in 0 .. MaxWorkers, driven by one
\* caller, its workers' threads ending when they will.
InitPool ==
    /\ cls = "POOL" /\ mode = "seq" /\ req = 0
    /\ ctor = [pc |-> "begin", size |-> 0, cap |-> 0]
    /\ size_ = 0 /\ head_ = 0 /\ tail_ = 0 /\ buf_ = << >>
    /\ state_ = 0
    /\ pc = [t \in Threads |-> "idle"]
    /\ loc = [t \in Threads |-> NoLoc]
    /\ ret = [t \in Threads |-> NoRet]
    /\ dirty = [t \in Threads |-> {}]
    /\ log = [t \in Threads |-> << >>]
    /\ claims = << >> /\ ncalls = 0
    /\ \E thread_cnt \in 0 .. MaxWorkers :
          thread_cnt_ = IF thread_cnt = 0 THEN 1 ELSE thread_cnt
    /\ start_flag_ = FALSE /\ workers_ = << >>
    /\ last = NoCall

NextPool ==
    \/ \E o \in [1 .. thread_cnt_ -> Outcomes] : start_pool(o) \/ monitor_pool(o)
    \/ stop_pool
    \/ \E i \in 1 .. thread_cnt_ : Worker_throw(i) \/ Worker_return(i)

SpecPool == InitPool /\ [][NextPool]_vars

\* ------------------------------------------------ what callers observe ----
\* The logged calls of a set of threads, each named by thread and index.
CallsOf(T) == UNION { { << t, i >> : i \in DOMAIN log[t] } : t \in T }
Entry(c) == log[c[1]][c[2]]

\* In mode "conc": the enqueues that returned a length, the dequeues that
\* returned a length.
EnqCalls == CallsOf(Producers)
DeqCalls == CallsOf(Consumers)

\* No call is in progress.
Quiescent == Started /\ \A t \in Threads : pc[t] = "idle"

\* A dequeue (a pop) that started now would return -1.
Drained ==
    IF cls = "SPSC" THEN tail_ = head_
    ELSE buf_[SlotOf(head_)].seq - (head_ + 1) < 0

\* The dequeue d returned the message the enqueue e submitted.
Took(d, e) == Entry(d).data = Entry(e).data /\ Entry(d).val = Entry(e).val

\* ------------------------------------------------------------- claims ----
\* C1: MPMCBuf delivers exactly once.  With producers and consumers running
\* concurrently, every successful dequeue returns a message that a successful
\* enqueue submitted, no message is returned by two successful dequeues, and
\* once no call is in progress and a dequeue would find the queue empty, the
\* messages dequeued are exactly the messages whose enqueue returned a length.
C1_ExactlyOnce ==
    (cls = "MPMC" /\ mode = "conc") =>
        /\ \A d \in DeqCalls : \E e \in EnqCalls : Took(d, e)
        /\ \A d1, d2 \in DeqCalls :
              Entry(d1).data = Entry(d2).data => d1 = d2
        /\ (Quiescent /\ Drained) =>
              \A e \in EnqCalls : \E d \in DeqCalls : Took(d, e)

\* Both producers had messages accepted, both consumers dequeued, the ring
\* wrapped, and the queue is drained and at rest.
C1_Witness ==
    /\ cls = "MPMC" /\ mode = "conc" /\ Quiescent /\ Drained
    /\ Len(log[1]) >= 1 /\ Len(log[2]) >= 1
    /\ Len(log[3]) >= 1 /\ Len(log[4]) >= 1
    /\ Cardinality(EnqCalls) = MaxMsgs
    /\ tail_ > size_

\* C2: MPSCBuf loses and duplicates nothing, and under fair scheduling the
\* single consumer, calling dequeue again and again, eventually has received
\* every message of the producers, who retry an enqueue that returned -1 until
\* all their messages are accepted: at every moment the messages received are
\* distinct and each was accepted, and eventually all MaxMsgs messages have
\* been accepted and received.
C2_NoLossNoDup ==
    /\ \A d \in DeqCalls : \E e \in EnqCalls : Took(d, e)
    /\ \A d1, d2 \in DeqCalls : Entry(d1).data = Entry(d2).data => d1 = d2

C2_AllReceived ==
    /\ Cardinality(EnqCalls) = MaxMsgs
    /\ Len(log[3]) = MaxMsgs
    /\ \A e \in EnqCalls : \E d \in DeqCalls : Took(d, e)

C2_Delivery == [](cls = "MPSC" => C2_NoLossNoDup) /\ <>[]C2_AllReceived

\* The consumer has received all the messages, some from each producer,
\* through a ring of two slots.
C2_Witness ==
    /\ cls = "MPSC" /\ mode = "conc" /\ size_ = 2
    /\ Len(log[1]) >= 1 /\ Len(log[2]) >= 1
    /\ C2_AllReceived

\* C3: SPSCBuf is FIFO.  With one pusher and one popper running
\* concurrently, the messages the successful pops have returned, in order,
\* are at every moment a prefix of the messages the successful pushes have
\* accepted, in order.
C3_PopsArePrefix ==
    (cls = "SPSC" /\ mode = "conc") =>
        /\ Len(log[3]) <= Len(log[1])
        /\ \A i \in DOMAIN log[3] :
              /\ log[3][i].data = log[1][i].data
              /\ log[3][i].val = log[1][i].val

\* Two messages popped from a ring of two slots, and the popper testing for
\* empty while the pusher is about to publish the third.
C3_Witness ==
    /\ cls = "SPSC" /\ mode = "conc" /\ size_ = 2
    /\ Len(log[3]) = 2 /\ Len(log[1]) = 2
    /\ pc[1] = "push_store" /\ pc[3] = "pop_empty"

\* Head position a was taken by a dequeue before head position b was.
ClaimedBefore(a, b) ==
    \E k1, k2 \in DOMAIN claims : k1 < k2 /\ claims[k1] = a /\ claims[k2] = b

\* C4: MPSCBuf and MPMCBuf are FIFO per producer.  When a producer's enqueue
\* of m1 has returned a length before its enqueue of m2 started, m1 holds a
\* lower tail ticket than m2, the dequeue that takes m1 takes its head
\* position before the dequeue that takes m2 takes its own, and a consumer
\* thread that receives both receives m1 first.
C4_PerProducerFIFO ==
    (cls \in {"MPSC", "MPMC"} /\ mode = "conc") =>
        \A p \in Producers : \A i, j \in DOMAIN log[p] :
            i < j =>
                LET m1 == log[p][i]
                    m2 == log[p][j]
                IN  /\ m1.pos < m2.pos
                    /\ (\E k \in DOMAIN claims : claims[k] = m2.pos)
                          => ClaimedBefore(m1.pos, m2.pos)
                    /\ \A d1, d2 \in DeqCalls :
                          (Entry(d1).data = m1.data /\ Entry(d2).data = m2.data)
                          => /\ ClaimedBefore(Entry(d1).pos, Entry(d2).pos)
                             /\ (d1[1] = d2[1] => d1[2] < d2[2])

\* One producer's first two messages went through MPMCBuf to two different
\* consumers, the other producer's message in between.
C4_Witness ==
    /\ cls = "MPMC" /\ mode = "conc"
    /\ Len(log[1]) = 2 /\ Len(log[2]) = 1
    /\ log[1][1].pos = 0 /\ log[2][1].pos = 1 /\ log[1][2].pos = 2
    /\ \E d1, d2 \in DeqCalls :
          /\ Entry(d1).data = log[1][1].data
          /\ Entry(d2).data = log[1][2].data
          /\ d1[1] # d2[1]

\* The threads between a return of lock() and their unlock(), and the threads
\* between a return of lock_shared() and their unlock_shared().
Writing == { t \in Threads : pc[t] = "writing" }
Reading == { t \in Threads : pc[t] = "reading" }

\* C5: RWSpinLock excludes.  With threads that release only what they hold,
\* in every reachable state at most one thread is between lock() and
\* unlock(), and while there is one, no thread is between lock_shared() and
\* unlock_shared(); so lock() never returns while a shared holder exists and
\* no lock_shared() returns while a writer holds the lock.
C5_MutualExclusion ==
    cls = "RW" =>
        /\ Cardinality(Writing) <= 1
        /\ Writing # {} => Reading = {}

\* A writer holds the lock while a reader that has seen the writer bit spins
\* and a second writer retries its exchange.
C5_Witness ==
    /\ cls = "RW"
    /\ \E w, r, v \in Threads :
          /\ pc[w] = "writing"
          /\ pc[r] = "ls_load" /\ loc[r].old = WRITER_BIT
          /\ pc[v] = "w_cas"

\* ------------------------------------------- one caller, call by call ----
\* In mode "seq" log[1] holds every call of the single caller, in order.
Calls == log[1]

\* The successful calls of kind op among the first k calls.
Succeeded(op, k) ==
    Cardinality({ i \in 1 .. k : Calls[i].op = op /\ Calls[i].val >= 0 })

\* The messages stored and not yet consumed after the first k calls.
StoredAfter(k) == Succeeded("enq", k) - Succeeded("deq", k)

\* The largest payload a slot holds.
MaxPayload == IF cls = "SPSC" THEN MAX_SLOT_SIZE ELSE MAX_NODE_SIZE

\* The messages the queue holds before it reports full.
FillCount == IF cls = "SPSC" THEN size_ - 1 ELSE size_

\* C6: round trip.  On a queue that holds nothing and is used by no one
\* else, a push/enqueue of a message of L bytes, 0 <= L <= 65535, returns L,
\* and the immediately following pop/dequeue with an output buffer of at
\* least L bytes returns L and exactly the bytes submitted; for L = 0 both
\* return 0, which is not the sentinel -1.
C6_RoundTrip ==
    mode = "seq" =>
        \A k \in DOMAIN Calls :
            (Calls[k].op = "enq" /\ Calls[k].arg <= MaxPayload
                                /\ StoredAfter(k - 1) = 0) =>
                /\ Calls[k].val = Calls[k].arg
                /\ (k + 1 \in DOMAIN Calls /\ Calls[k + 1].op = "deq"
                                           /\ Calls[k + 1].arg >= Calls[k].arg) =>
                      /\ Calls[k + 1].val = Calls[k].arg
                      /\ Calls[k + 1].data = Calls[k].data

\* An empty message and a message of 65535 bytes have each made the round
\* trip, the second through a buffer of exactly 65535 bytes.
C6_Witness ==
    /\ mode = "seq" /\ Len(Calls) = 4
    /\ Calls[1].op = "enq" /\ Calls[1].arg = 0 /\ Calls[1].val = 0
    /\ Calls[2].op = "deq" /\ Calls[2].val = 0
    /\ Calls[3].op = "enq" /\ Calls[3].arg = 65535
    /\ Calls[4].op = "deq" /\ Calls[4].arg = 65535 /\ Calls[4].val = 65535
    /\ Calls[4].data = Calls[3].data

\* The index of the n-th successful call of kind op.
NthSucceeded(op, n) ==
    CHOOSE i \in DOMAIN Calls :
        Calls[i].op = op /\ Calls[i].val >= 0 /\ Succeeded(op, i) = n

\* C7: truncation.  A push/enqueue of more than 65535 bytes on a queue that
\* is not full returns exactly 65535; when it has returned, the slot holds
\* the first 65535 bytes of the message and the stored length 65535 (the
\* 16-bit field has not wrapped); and the pop/dequeue that later takes the
\* message with a buffer of at least 65535 bytes returns 65535 and those
\* bytes.
C7_Truncation ==
    mode = "seq" =>
        /\ \A k \in DOMAIN Calls :
              (Calls[k].op = "enq" /\ Calls[k].arg > MaxPayload
                                  /\ StoredAfter(k - 1) < FillCount) =>
                  /\ Calls[k].val = MaxPayload
                  /\ (k = Len(Calls) /\ pc[1] = "idle") =>
                        LET slot == buf_[BitAnd(Calls[k].pos, size_ - 1)] IN
                            /\ slot.len_ = MaxPayload
                            /\ slot.data_ = BTake(Calls[k].data, MaxPayload)
        /\ \A k \in DOMAIN Calls :
              (Calls[k].op = "deq" /\ Calls[k].val >= 0) =>
                  LET e == Calls[NthSucceeded("enq", Succeeded("deq", k))] IN
                      (e.arg > MaxPayload /\ Calls[k].arg >= MaxPayload) =>
                          /\ Calls[k].val = MaxPayload
                          /\ Calls[k].data = BTake(e.data, MaxPayload)

\* A message of 65536 bytes was enqueued behind another message in MPMCBuf
\* and has been dequeued, cut to 65535 bytes, into a larger buffer.
C7_Witness ==
    /\ mode = "seq" /\ cls = "MPMC" /\ Len(Calls) = 4
    /\ Calls[1].op = "enq" /\ Calls[1].val = 1
    /\ Calls[2].op = "enq" /\ Calls[2].arg = 65536 /\ Calls[2].val = 65535
    /\ Calls[3].op = "deq" /\ Calls[3].val = 1
    /\ Calls[4].op = "deq" /\ Calls[4].arg = 65540 /\ Calls[4].val = 65535
    /\ Calls[4].data = BTake(Calls[2].data, 65535)

\* C8: fill count.  On a queue of capacity C that starts empty, with no
\* pop/dequeue taking place, the consecutive push/enqueue calls of one thread
\* succeed exactly C - 1 times on SPSCBuf and exactly C times on MPSCBuf and
\* MPMCBuf, and the call after those returns -1; and whatever the calls, the
\* number of messages stored and not yet consumed never exceeds that count.
C8_FillCount ==
    mode = "seq" =>
        /\ \A k \in DOMAIN Calls :
              (\A i \in 1 .. k : Calls[i].op = "enq") =>
                  (IF k <= FillCount THEN Calls[k].val >= 0 ELSE Calls[k].val = -1)
        /\ \A k \in DOMAIN Calls : StoredAfter(k) <= FillCount

\* SPSCBuf of capacity 4 accepted three pushes and refused the fourth.
C8_Witness ==
    /\ mode = "seq" /\ cls = "SPSC" /\ size_ = 4 /\ Len(Calls) = 4
    /\ \A i \in 1 .. 3 : Calls[i].op = "enq" /\ Calls[i].val >= 0
    /\ Calls[4].op = "enq" /\ Calls[4].val = -1

\* ------------------------------------------------------- constructors ----
\* The smallest power of two that is at least r, counted up from c.
RECURSIVE PowerOfTwoFrom(_, _)
PowerOfTwoFrom(c, r) == IF c >= r THEN c ELSE PowerOfTwoFrom(2 * c, r)

\* max(2, smallest power of two >= r)
ExpectedCapacity(r) ==
    IF PowerOfTwoFrom(1, r) < 2 THEN 2 ELSE PowerOfTwoFrom(1, r)

IsPowerOfTwo(n) == \E k \in 0 .. WordBits : n = Pow2(k)

\* C9: capacity rounding.  For every requested size r >= 0 the constructor
\* of each queue completes and sets the capacity to
\* max(2, smallest power of two >= r), a power of two, which never changes
\* afterwards.
C9_CapacityRounding ==
    /\ <>(ctor.pc = "done")
    /\ [](ctor.pc = "done" =>
            size_ = ExpectedCapacity(req) /\ IsPowerOfTwo(size_))
    /\ [][ctor.pc = "done" => size_' = size_]_vars

\* The rounding loop with cap shifted out to 0 and a size still above it.
C9_Witness ==
    /\ ctor.pc = "loop" /\ ctor.cap = 0
    /\ ctor.size = req /\ req > Pow2(WordBits - 1)

\* C10: the sentinel has no side effects.  In every interleaving, on all
\* three queues, a push/enqueue or pop/dequeue that has returned -1 has
\* changed, by its own writes, neither head_ nor tail_ nor any slot's seq,
\* len_ or data_ nor the caller's output buffer.
C10_SentinelNoEffect ==
    \A t \in Threads : ret[t].val = -1 => dirty[t] = {}

\* In MPMCBuf a producer was refused by the full ring of two slots, and once
\* the other producer's two messages were taken a consumer found it empty.
C10_Witness ==
    /\ cls = "MPMC" /\ mode = "conc" /\ size_ = 2
    /\ ret[1] = [op |-> "enq", val |-> -1] /\ pc[1] = "idle"
    /\ ret[3] = [op |-> "deq", val |-> -1] /\ pc[3] = "idle"
    /\ Len(log[2]) = 2 /\ Len(log[4]) = 2

\* ------------------------------------------------- what the sentinel says ----
\* The head positions dequeues have taken.
Claimed == { claims[k] : k \in DOMAIN claims }

\* A message whose enqueue has returned a length waits, taken by no dequeue.
MessageWaiting == \E e \in EnqCalls : Entry(e).pos \notin Claimed

\* Thread t reads a slot's seq in its dequeue (its enqueue) and returns -1.
DequeueRefused(t) == pc[t] = "deq_seq" /\ pc'[t] = "idle"
EnqueueRefused(t) == pc[t] = "enq_seq" /\ pc'[t] = "idle"

\* C11: the empty sentinel means empty.  In every interleaving, a dequeue of
\* MPSCBuf or MPMCBuf returns -1 only if, at the moment it reads the slot's
\* seq, no message whose enqueue has returned a length is waiting untaken.
C11_EmptyMeansEmpty ==
    [][\A t \in Threads :
          (cls \in {"MPSC", "MPMC"} /\ DequeueRefused(t)) => ~MessageWaiting]_vars

\* A consumer was told "empty" while the message with ticket 1 was accepted
\* and untaken: the producer holding ticket 0 has not published yet.
C11_Witness ==
    /\ cls \in {"MPSC", "MPMC"} /\ mode = "conc"
    /\ ret[3] = [op |-> "deq", val |-> -1] /\ pc[3] = "idle"
    /\ pc[1] = "enq_copy" /\ loc[1].t = 0
    /\ Len(log[2]) = 1 /\ log[2][1].pos = 1
    /\ claims = << >>

\* Slot i holds a published message that no dequeue has taken.
SlotFull(i) ==
    LET k == buf_[i].seq - 1 IN
        k >= 0 /\ SlotOf(k) = i /\ k \notin Claimed

\* C12: the full sentinel means full.  In every interleaving, an enqueue of
\* MPSCBuf or MPMCBuf returns -1 only if, at the moment it reads the slot's
\* seq, every slot holds a published message that no dequeue has taken yet.
C12_FullMeansFull ==
    [][\A t \in Threads :
          (cls \in {"MPSC", "MPMC"} /\ EnqueueRefused(t))
              => \A i \in DOMAIN buf_ : SlotFull(i)]_vars

\* In MPMCBuf of capacity 2 a producer was told "full" while one consumer
\* still copies ticket 0 out and the other has released the slot of ticket 1.
C12_Witness ==
    /\ cls = "MPMC" /\ mode = "conc" /\ size_ = 2
    /\ ret[1] = [op |-> "enq", val |-> -1] /\ pc[1] = "idle"
    /\ pc[3] = "deq_copy" /\ loc[3].h = 0
    /\ Len(log[4]) = 1 /\ log[4][1].pos = 1
    /\ tail_ = 2 /\ buf_[1].seq = 3

\* ------------------------------------------------------------ progress ----
\* Thread t is inside a call of a single-owner side: SPSCBuf::push,
\* SPSCBuf::pop or MPSCBuf::dequeue.
InOwnerCall(t) ==
    /\ pc[t] # "idle"
    /\ cls = "SPSC" \/ (cls = "MPSC" /\ t \in Consumers)

\* How many of its steps a call has taken when it stands at a position.
StepsAt(p) ==
    CASE p \in {"push_full", "pop_empty", "deq_seq"} -> 1
      [] p \in {"push_copy", "pop_copy", "deq_copy"} -> 2
      [] p \in {"push_store", "pop_store", "deq_rel"} -> 3
      [] p = "deq_store" -> 4
      [] OTHER -> 0

\* C13: the single-owner sides are wait-free.  Whatever the other threads
\* do, and also when the counterpart never moves again, a thread inside
\* SPSCBuf::push, SPSCBuf::pop or MPSCBuf::dequeue can always take its next
\* step, and each of its steps either returns or moves it to a later
\* position of a straight line of at most four, so the call returns after at
\* most five of its own steps.
C13_WaitFree ==
    /\ [](\A t \in Threads :
            InOwnerCall(t) => ENABLED << SPSC(t) \/ MPSC(t) >>_vars)
    /\ [][\A t \in Threads :
            (InOwnerCall(t) /\ (SPSC(t) \/ MPSC(t))) =>
                pc'[t] = "idle" \/ StepsAt(pc'[t]) > StepsAt(pc[t])]_vars

\* The consumer of MPSCBuf takes the last step of a dequeue while one
\* producer holds a ticket it has not published and the other is about to
\* exchange tail_.
C13_Witness ==
    /\ cls = "MPSC" /\ mode = "conc"
    /\ pc[3] = "deq_store" /\ pc[1] = "enq_copy" /\ pc[2] = "enq_cas"

\* Thread t goes round the retry loop of its enqueue (its dequeue): by the
\* diff > 0 branch, or by a compare-exchange that failed because the cursor
\* differed and so reloaded t (h).
EnqueueRetries(t) ==
    /\ pc'[t] = "enq_tail"
    /\ pc[t] = "enq_seq" \/ (pc[t] = "enq_cas" /\ loc'[t].t # loc[t].t)
DequeueRetries(t) ==
    /\ pc'[t] = "deq_head"
    /\ pc[t] = "deq_seq" \/ (pc[t] = "deq_cas" /\ loc'[t].h # loc[t].h)

\* A call returns.
SomeCallReturns == \E t \in Threads : pc[t] # "idle" /\ pc'[t] = "idle"

\* Every thread but s keeps taking steps, and a compare-exchange that is
\* retried does not fail spuriously for ever.
FairExcept(s) ==
    \A t \in Threads \ {s} :
        /\ WF_vars(MPSC(t) \/ MPMC(t))
        /\ SF_vars(MPSC_enqueue_cas(t) \/ MPMC_enqueue_cas(t))
        /\ SF_vars(MPMC_dequeue_cas(t))

\* C14: the claim loops of MPSCBuf and MPMCBuf are lock-free.  A call goes
\* round its retry loop only if the cursor it loaded has been advanced by
\* another thread since; and in every execution in which all threads but
\* one, which may stop for ever anywhere in its call, keep taking steps,
\* calls return again and again, unless from some moment on no running
\* thread is inside a call.
C14_LockFree ==
    /\ [][\A t \in Threads :
            /\ (cls \in {"MPSC", "MPMC"} /\ EnqueueRetries(t)) => tail_ > loc[t].t
            /\ (cls = "MPMC" /\ DequeueRetries(t)) => head_ > loc[t].h]_vars
    /\ \A s \in Threads :
          (cls \in {"MPSC", "MPMC"} /\ FairExcept(s)) =>
              \/ []<><< SomeCallReturns >>_vars
              \/ <>[](\A t \in Threads \ {s} : pc[t] = "idle")

\* A producer of MPMCBuf goes back to reload tail_: the other producer has
\* taken and published the ticket it had loaded.
C14_Witness ==
    /\ cls = "MPMC" /\ mode = "conc"
    /\ pc[1] = "enq_tail" /\ loc[1].t = 0
    /\ buf_[0].seq = 1 /\ Len(log[2]) >= 1 /\ log[2][1].pos = 0

\* The threads inside lock() after their exchange succeeded, or past it.
InsideLock == { t \in Threads : pc[t] \in {"w_wait", "writing"} }

\* The reader count of the word: the bits below the writer bit.
ReaderCount == state_ % WRITER_BIT

Idle == state_ = 0 /\ Reading = {} /\ InsideLock = {}
ReadLocked ==
    /\ state_ = Cardinality(Reading) /\ state_ > 0
    /\ ~WriterActive(state_)
    /\ InsideLock = {}
WriteLocked ==
    /\ state_ = WRITER_BIT
    /\ Reading = {}
    /\ Cardinality(InsideLock) = 1

\* C15: RWSpinLock state forms.  With threads that release only what they
\* hold, in every reachable state state_ is 0 with no holder, or the number
\* n > 0 of shared holders with the writer bit clear, or WRITER_BIT exactly
\* with no shared holder and one thread inside or past lock(); the writer bit
\* is never set together with a non-zero reader count.
C15_StateForms ==
    cls = "RW" =>
        /\ Idle \/ ReadLocked \/ WriteLocked
        /\ ~(WriterActive(state_) /\ ReaderCount # 0)

\* The same forms hold as long as the shared holders are fewer than
\* WRITER_BIT, the most the reader count can hold.
StateFormsInRange ==
    (cls = "RW" /\ Cardinality(Reading) < WRITER_BIT) =>
        /\ Idle \/ ReadLocked \/ WriteLocked
        /\ ~(WriterActive(state_) /\ ReaderCount # 0)

\* A thread is past its exchange in lock() while a reader that loaded 0
\* before it is about to try state_ 0 -> 1.
C15_Witness ==
    /\ cls = "RW" /\ state_ = WRITER_BIT
    /\ \E w, r \in Threads :
          /\ pc[w] = "w_wait"
          /\ pc[r] = "ls_cas" /\ loc[r].old = 0

\* The three phases of two readers a and b relaying the shared lock while w
\* spins in the first loop of lock(): a holds and b is outside; a holds and
\* b has loaded the count; both hold.
Relay1(a, b, w) ==
    /\ pc[w] = "w_cas" /\ pc[a] = "reading" /\ pc[b] = "idle" /\ state_ = 1
Relay2(a, b, w) ==
    /\ pc[w] = "w_cas" /\ pc[a] = "reading" /\ pc[b] = "ls_cas"
    /\ loc[b].old = 1 /\ state_ = 1
Relay3(a, b, w) ==
    /\ pc[w] = "w_cas" /\ pc[a] = "reading" /\ pc[b] = "reading" /\ state_ = 2

\* A step of w that changes anything.
WriterMoves(w) == << RW_lock_cas(w) \/ RW_lock_cas_spurious(w) \/ RW_lock_wait(w) >>_vars

\* C16: RWSpinLock writer starvation is possible.  From every reachable state
\* in which w has called lock() and a holds the shared lock alone, the readers
\* a and b can go round for ever: b loads, b acquires, a releases, and the
\* same with a and b exchanged, each phase leading to the next by a step
\* that is enabled; each reader holds the lock for three steps of the round
\* and no step of w is ever enabled that would change anything, so w spins
\* in lock() for ever in an execution that is fair to every thread.
C16_WriterStarvation ==
    \A a, b, w \in Threads :
        (cls = "RW" /\ a # b /\ a # w /\ b # w) =>
            /\ Relay1(a, b, w) =>
                  /\ ENABLED (RW_lock_shared_load(b) /\ Relay2(a, b, w)')
                  /\ ~ENABLED WriterMoves(w)
            /\ Relay2(a, b, w) =>
                  /\ ENABLED (RW_lock_shared_cas(b) /\ Relay3(a, b, w)')
                  /\ ~ENABLED WriterMoves(w)
            /\ Relay3(a, b, w) =>
                  /\ ENABLED (RW_unlock_shared(a) /\ Relay1(b, a, w)')
                  /\ ~ENABLED WriterMoves(w)

\* The second reader has joined the first while a thread that called lock()
\* before either of them held the lock is still retrying its exchange.
C16_Witness ==
    /\ cls = "RW"
    /\ Relay3(3, 4, 1)
    /\ pc[2] = "idle"

\* The threads spinning in lock() or lock_shared().
Spinning == { t \in Threads : pc[t] \in {"ls_load", "ls_cas", "w_cas", "w_wait"} }

\* lock_shared() or lock() returns to some thread.
SomeAcquires ==
    \E t \in Threads :
        /\ pc[t] \notin {"reading", "writing"}
        /\ pc'[t] \in {"reading", "writing"}

\* With the lock free, the next step of a waiting thread t is enabled and
\* takes it towards the lock.
CanAdvance(t) ==
    /\ pc[t] = "w_cas" => ENABLED (RW_lock_cas(t) /\ pc'[t] = "w_wait")
    /\ pc[t] = "ls_load" => ENABLED (RW_lock_shared_load(t) /\ pc'[t] = "ls_cas")
    /\ (pc[t] = "ls_cas" /\ loc[t].old = 0) =>
           ENABLED (RW_lock_shared_cas(t) /\ pc'[t] = "reading")
    /\ (pc[t] = "ls_cas" /\ loc[t].old # 0) =>
           ENABLED (RW_lock_shared_cas(t) /\ pc'[t] = "ls_load" /\ loc'[t].old = 0)

\* C17: RWSpinLock has no deadlock.  Under fair scheduling, with threads that
\* release only what they hold and release it eventually, either again and
\* again no thread is spinning, or lock() or lock_shared() returns again and
\* again: from a state with a spinning thread some spinning thread acquires
\* the lock.  And whenever state_ is 0, no thread is in the drain loop and
\* every waiting thread has its next step towards the lock enabled.
C17_NoDeadlock ==
    /\ [](cls = "RW" /\ state_ = 0 =>
            \A t \in Spinning : pc[t] # "w_wait" /\ CanAdvance(t))
    /\ ([]<>(Spinning = {}) \/ []<><< SomeAcquires >>_vars)

\* The lock has just been released: it is free while one thread retries the
\* exchange of lock() and another is about to try the exchange of
\* lock_shared() with the count it loaded from the previous holder.
C17_Witness ==
    /\ cls = "RW" /\ state_ = 0
    /\ pc[1] = "w_cas"
    /\ pc[3] = "ls_cas" /\ loc[3].old = 1
    /\ pc[2] = "idle" /\ pc[4] = "idle"

\* The caller's call op returns in this step.
Returns(op) == cls = "POOL" /\ last'.n = last.n + 1 /\ last'.op = op

\* C18: WorkerPool recovery restores liveness.  When monitor_pool() has
\* restarted every worker it found terminated, each restarted worker reports
\* get_thread_term() = false; a monitor_pool() that follows a monitor_pool()
\* that returned true, no thread_loop() having ended by an exception in
\* between, counts 0 dead workers and returns true; and a monitor_pool() with
\* a failed restart leaves the pool stopped and returns false.
C18_Recovery ==
    [][Returns("monitor") =>
         /\ last'.val =>
               \A i \in last'.restarted : ~get_thread_term(workers_'[i])
         /\ (last.op = "monitor" /\ last.val /\ last.quiet) =>
               (last'.dead = 0 /\ last'.val)
         /\ last'.fail > 0 =>
               (~start_flag_' /\ workers_' = << >> /\ ~last'.val)]_vars

\* monitor_pool() has returned true after restarting the only worker, whose
\* thread_loop() had thrown.
C18_Witness ==
    /\ cls = "POOL" /\ thread_cnt_ = 1 /\ start_flag_
    /\ last.op = "monitor" /\ last.val /\ last.restarted = {1}
    /\ workers_[1].running

\* A worker that is stopped: no thread, nothing held.
Stopped(w) == w.thread_id_ = 0 /\ ~w.running /\ ~w.held

\* C19: WorkerPool lifecycle.  Between the calls of one caller the pool is
\* started with exactly thread_cnt_ workers, or stopped with workers_ empty.
\* start_pool() on a started pool returns false and changes nothing;
\* stop_pool() on a stopped pool changes nothing; a start_pool() in which a
\* worker fails to start returns false and leaves the pool stopped, every
\* one of its thread_cnt_ workers stopped before it was destroyed; a
\* start_pool() that returns true leaves every worker with a thread.
C19_Lifecycle ==
    /\ [](cls = "POOL" =>
            \/ start_flag_ /\ Len(workers_) = thread_cnt_
            \/ ~start_flag_ /\ workers_ = << >>)
    /\ [][/\ (Returns("start") /\ start_flag_) =>
               (~last'.val /\ UNCHANGED << workers_, start_flag_, thread_cnt_ >>)
          /\ (Returns("stop") /\ ~start_flag_) =>
               UNCHANGED << workers_, start_flag_, thread_cnt_ >>
          /\ (Returns("start") /\ ~start_flag_ /\ ~last'.val) =>
               /\ ~start_flag_' /\ workers_' = << >>
               /\ Len(last'.cleared) = thread_cnt_
               /\ \A i \in DOMAIN last'.cleared : Stopped(last'.cleared[i])
          /\ (Returns("start") /\ ~start_flag_ /\ last'.val) =>
               /\ start_flag_'
               /\ \A i \in DOMAIN workers_' : workers_'[i].thread_id_ # 0]_vars

\* A start_pool() of two workers has failed on the second: the first, which
\* had started, was told to end and joined; the second never had a thread.
C19_Witness ==
    /\ cls = "POOL" /\ thread_cnt_ = 2 /\ ~start_flag_ /\ workers_ = << >>
    /\ last.op = "start" /\ ~last.val
    /\ Len(last.cleared) = 2
    /\ last.cleared[1].thread_term_ /\ ~last.cleared[2].thread_term_

\* A producer between taking a slot and publishing it; a consumer between
\* taking a slot and releasing it.
ProducerHolds(t) == pc[t] \in {"enq_copy", "enq_pub", "push_copy", "push_store"}
ConsumerHolds(t) == pc[t] \in {"deq_copy", "deq_rel", "pop_copy", "pop_store"}

\* The slot such a thread writes or reads.
HeldSlot(t) ==
    IF cls = "SPSC"
    THEN IF ProducerHolds(t) THEN loc[t].head ELSE loc[t].tail
    ELSE IF ProducerHolds(t) THEN SlotOf(loc[t].t) ELSE SlotOf(loc[t].h)

\* The ticket of a holder: in MPSCBuf and MPMCBuf the position it took; in
\* SPSCBuf the number of pushes (pops) that returned before this one.
Ticket(t) ==
    IF cls = "SPSC" THEN Len(log[t])
    ELSE IF ProducerHolds(t) THEN loc[t].t ELSE loc[t].h

\* The consumer of ticket k has finished copying and given the slot back.
GivenBack(k) ==
    IF cls = "SPSC"
    THEN \E c \in Consumers : Len(log[c]) > k
    ELSE /\ k \in Claimed
         /\ \A c \in Threads : ConsumerHolds(c) => Ticket(c) # k

\* C20: exclusive slot access.  In SPSCBuf, MPSCBuf and MPMCBuf with
\* producers and consumers running concurrently, a producer that has taken a
\* slot and not yet published it shares the slot with no other producer and
\* with no consumer that is reading it or has not yet released it; and a
\* producer holding ticket k >= size_ holds it only after the consumer of
\* ticket k - size_ has finished copying and released the slot.
C20_ExclusiveSlot ==
    (cls \in QueueClasses /\ mode = "conc") =>
        \A t \in Threads : ProducerHolds(t) =>
            /\ \A u \in Threads \ {t} :
                  (ProducerHolds(u) \/ ConsumerHolds(u)) => HeldSlot(u) # HeldSlot(t)
            /\ Ticket(t) >= size_ => GivenBack(Ticket(t) - size_)

\* In a queue of capacity 2 a producer writes slot 0 for the second time
\* (ticket 2) while a consumer reads slot 1 (ticket 1).
C20_Witness ==
    /\ cls = "MPMC" /\ mode = "conc" /\ size_ = 2
    /\ pc[1] = "enq_copy" /\ loc[1].t = 2
    /\ pc[3] = "deq_copy" /\ loc[3].h = 1

\* In this step the producer that won ticket i publishes slot k, whose seq
\* was i, with i + 1, its payload written.
Published(k) ==
    \E t \in Threads :
        /\ pc[t] = "enq_pub" /\ pc'[t] # "enq_pub"
        /\ SlotOf(loc[t].t) = k
        /\ buf_[k].seq = loc[t].t
        /\ buf_'[k].seq = loc[t].t + 1

\* In this step the consumer that took ticket i releases slot k, whose seq
\* was i + 1, with i + size_.
Released(k) ==
    \E t \in Threads :
        /\ pc[t] = "deq_rel" /\ pc'[t] # "deq_rel"
        /\ SlotOf(loc[t].h) = k
        /\ buf_[k].seq = loc[t].h + 1
        /\ buf_'[k].seq = loc[t].h + size_

\* C21: per-slot sequence protocol in MPSCBuf and MPMCBuf.  Slot k starts
\* with seq k; its seq is always k or k + 1 plus a multiple of the capacity;
\* it is i while a producer holds the slot with ticket i; and it changes only
\* from i to i + 1, by the producer that won ticket i once it has written the
\* payload, and from i + 1 to i + size_, by the consumer that took ticket i:
\* so it goes k, k + 1, k + size_, k + size_ + 1, ... in that order.
C21_SeqProtocol ==
    /\ []((cls \in {"MPSC", "MPMC"} /\ mode = "conc" /\ Started) =>
            /\ \A k \in DOMAIN buf_ :
                  /\ buf_[k].seq >= k
                  /\ (buf_[k].seq - k) % size_ \in {0, 1}
                  /\ (tail_ = 0 /\ head_ = 0 /\ \A t \in Threads : pc[t] \notin {"enq_pub", "deq_rel", "deq_store"})
                        => buf_[k].seq = k
            /\ \A t \in Threads : pc[t] \in {"enq_copy", "enq_pub"} =>
                  buf_[SlotOf(loc[t].t)].seq = loc[t].t)
    /\ [][(cls \in {"MPSC", "MPMC"} /\ mode = "conc" /\ Started) =>
            \A k \in DOMAIN buf_ :
                buf_'[k].seq # buf_[k].seq => (Published(k) \/ Released(k))]_vars

\* In a queue of capacity 2 slot 0 has had seq 0, 1 and 2 and now has 3:
\* the messages of tickets 0 and 2 went through it.
C21_Witness ==
    /\ cls = "MPMC" /\ mode = "conc" /\ size_ = 2
    /\ buf_[0].seq = 3
    /\ pc[1] = "idle" /\ pc[2] = "idle"

\* The single consumer of MPSCBuf is between its two stores: the slot is
\* released, head_ not yet advanced.
BetweenStores == \E c \in Threads : pc[c] = "deq_store"

\* C22: MPSCBuf occupancy bound, as claimed.  In every reachable state of
\* MPSCBuf, 0 <= tail_ - head_ <= size_, the states between the two stores at
\* the end of dequeue included.
C22_OccupancyBound ==
    (cls = "MPSC" /\ mode = "conc" /\ Started) =>
        (0 <= tail_ - head_ /\ tail_ - head_ <= size_)

\* C22, amended: in every reachable state of MPSCBuf 0 <= tail_ - head_
\* <= size_ + 1, and tail_ - head_ <= size_ unless the consumer is between
\* the two stores at the end of dequeue.
C22_OccupancyBoundAmended ==
    (cls = "MPSC" /\ mode = "conc" /\ Started) =>
        /\ 0 <= tail_ - head_
        /\ tail_ - head_ <= size_ + 1
        /\ ~BetweenStores => tail_ - head_ <= size_

\* The consumer has released slot 0 of a queue of capacity 2 and not yet
\* stored head_, and a producer has already taken ticket 2.
C22_Witness ==
    /\ cls = "MPSC" /\ mode = "conc" /\ size_ = 2
    /\ pc[3] = "deq_store" /\ loc[3].h = 0
    /\ head_ = 0 /\ tail_ = 3

\* The length stored for the message the enqueue e submitted.
StoredLen(e) == Min(Calls[e].arg, MaxPayload)

\* The consumer's cursor: tail_ in SPSCBuf, head_ in MPSCBuf and MPMCBuf.
Cursor == IF cls = "SPSC" THEN tail_ ELSE head_

\* Where the cursor is after n successful pops/dequeues.
CursorAfter(n) == IF cls = "SPSC" THEN BitAnd(n, size_ - 1) ELSE n

\* C23: short output buffer.  With one caller, the n-th successful
\* pop/dequeue, called with output length len, takes the message of the n-th
\* successful push/enqueue, of stored length s, whatever len the earlier
\* pops were called with: it returns min(len, s), the first min(len, s) bytes
\* of the output buffer are the leading bytes of that message and the bytes
\* after them are as the caller left them, and the cursor has advanced by one
\* slot, so the bytes of a message that did not fit are read by no later call.
C23_ShortBuffer ==
    mode = "seq" =>
        \A k \in DOMAIN Calls :
            (Calls[k].op = "deq" /\ Calls[k].val >= 0) =>
                LET n == Succeeded("deq", k)
                    e == NthSucceeded("enq", n)
                    m == Min(Calls[k].arg, StoredLen(e))
                IN  /\ Succeeded("enq", k) >= n
                    /\ Calls[k].val = m
                    /\ Calls[k].data = BTake(Calls[e].data, m)
                    /\ Calls[k].pos = CursorAfter(n - 1)
                    /\ (k = Len(Calls) /\ pc[1] = "idle") =>
                          /\ Cursor = CursorAfter(n)
                          /\ loc[1].out = BCat(BTake(Calls[e].data, m),
                                               Rep(255, Calls[k].arg - m))

\* Two messages were enqueued, the first of 65535 bytes; a dequeue with a
\* buffer of one byte got the first byte of the first message, and the next
\* dequeue got the second message, not the rest of the first.
C23_Witness ==
    /\ mode = "seq" /\ cls = "MPMC" /\ Len(Calls) = 4 /\ pc[1] = "idle"
    /\ Calls[1].op = "enq" /\ Calls[1].val = 65535
    /\ Calls[2].op = "enq" /\ Calls[2].val = 1
    /\ Calls[3].op = "deq" /\ Calls[3].arg = 1 /\ Calls[3].val = 1
    /\ Calls[4].op = "deq" /\ Calls[4].arg = 65535 /\ Calls[4].val = 1
    /\ Calls[4].data = Calls[2].data

\* lock_shared() returns to thread t in this step.
SharedAcquired(t) == cls = "RW" /\ pc[t] = "ls_cas" /\ pc'[t] = "reading"

\* C24: the reader count never spills into the writer flag.  A successful
\* lock_shared(), whatever reader count 0 .. WRITER_BIT - 1 the word held
\* before it, leaves the writer bit clear and a reader count one higher,
\* within 0 .. WRITER_BIT - 1.
C24_NoSpill ==
    [][\A t \in Threads : SharedAcquired(t) =>
          /\ ~WriterActive(state_')
          /\ state_' \in 0 .. (WRITER_BIT - 1)
          /\ state_' = state_ + READER_INC]_vars

\* The last of WRITER_BIT readers has just acquired the shared lock: the
\* word reads as writer-held with reader count 0, and nobody called lock().
C24_Witness ==
    /\ cls = "RW" /\ WriterActive(state_) /\ ReaderCount = 0
    /\ \A t \in Threads : pc[t] = "reading"

\* C25: constructor termination.  For every requested size of the word,
\* requests above half the word's range included, the power-of-two rounding
\* loop of the SPSCBuf, MPSCBuf and MPMCBuf constructors terminates, and the
\* capacity it yields is a non-zero power of two.
C25_CtorTerminates ==
    /\ <>(ctor.pc = "done" /\ size_ # 0 /\ IsPowerOfTwo(size_))
    /\ [](ctor.pc = "done" => (size_ # 0 /\ IsPowerOfTwo(size_)))

\* A request above half the word's range, with cap at the top bit and still
\* below the request: the next shift takes cap to 0.
C25_Witness ==
    /\ cls \in QueueClasses /\ req > Pow2(WordBits - 1)
    /\ ctor.pc = "loop" /\ ctor.cap = Pow2(WordBits - 1)
    /\ ctor.cap < ctor.size

====
